---- MODULE Spec2Model ----
(***************************************************************************)
(* go-fed/activity: the functional properties "partOf" and "liked" of the  *)
(* ActivityStreams vocabulary (polymorphic single-value properties).       *)
(*                                                                         *)
(* Go strings that the code takes apart or builds (property keys, aliases, *)
(* IRI text) are sequences of one-character strings.  A Go nil is a        *)
(* record of the same shape as the non-nil values of its type, so that     *)
(* "x != nil" is a comparison of records.                                  *)
(***************************************************************************)
EXTENDS Integers, Sequences, FiniteSets, TLC

\* ------------------------------------------------------------------ bounds
\* Typed vocabulary values are numbered 0..MaxVal (0: its Serialize fails).
MaxVal == 1
\* Numbers 1..MaxNum occur as property values of unrecognized shape.
MaxNum == 1

\* ----------------------------------------------------------------- strings
\* Byte value of the characters used, for Go's string comparison.
Code(c) ==
  CASE c = "#" -> 35
    [] c = "/" -> 47
    [] c = ":" -> 58
    [] c = "H" -> 72
    [] c = "O" -> 79
    [] c = "a" -> 97
    [] c = "d" -> 100
    [] c = "e" -> 101
    [] c = "f" -> 102
    [] c = "h" -> 104
    [] c = "i" -> 105
    [] c = "k" -> 107
    [] c = "l" -> 108
    [] c = "o" -> 111
    [] c = "p" -> 112
    [] c = "r" -> 114
    [] c = "s" -> 115
    [] c = "t" -> 116
    [] c = "x" -> 120

IsLetter(c) == c \notin {"#", "/", ":"}

\* strings.ToLower on one character.
ToLowerChar(c) == IF c = "H" THEN "h" ELSE IF c = "O" THEN "o" ELSE c

ToLower(s) == [i \in 1..Len(s) |-> ToLowerChar(s[i])]

\* Go's s < t on strings: bytewise lexicographic, a proper prefix is smaller.
RECURSIVE StrLess(_, _)
StrLess(s, t) ==
  IF t = <<>> THEN FALSE
  ELSE IF s = <<>> THEN TRUE
  ELSE IF Code(Head(s)) < Code(Head(t)) THEN TRUE
  ELSE IF Code(Head(s)) > Code(Head(t)) THEN FALSE
  ELSE StrLess(Tail(s), Tail(t))

\* Position of the first occurrence of character c in s, 0 when absent.
IndexOf(s, c) ==
  IF \E i \in 1..Len(s) : s[i] = c
  THEN CHOOSE i \in 1..Len(s) : s[i] = c /\ \A j \in 1..(i - 1) : s[j] # c
  ELSE 0

\* ---------------------------------------------------------------- net/url
NilURL ==
  [nil |-> TRUE, Scheme |-> <<>>, Opaque |-> <<>>, Host |-> <<>>, Path |-> <<>>,
   Fragment |-> <<>>]

HasPrefix(s, prefix) ==
  Len(s) >= Len(prefix) /\ SubSeq(s, 1, Len(prefix)) = prefix

\* url.getScheme: [scheme, rest, err].
getScheme(rawURL) ==
  LET stop == IF \E i \in 1..Len(rawURL) : ~IsLetter(rawURL[i])
              THEN CHOOSE i \in 1..Len(rawURL) :
                     ~IsLetter(rawURL[i]) /\ \A j \in 1..(i - 1) : IsLetter(rawURL[j])
              ELSE 0
  IN  IF stop = 0 \/ rawURL[stop] # ":"
      THEN [scheme |-> <<>>, rest |-> rawURL, err |-> FALSE]
      ELSE IF stop = 1
      THEN [scheme |-> <<>>, rest |-> <<>>, err |-> TRUE]
      ELSE [scheme |-> SubSeq(rawURL, 1, stop - 1),
            rest |-> SubSeq(rawURL, stop + 1, Len(rawURL)), err |-> FALSE]

\* url.Parse over the characters of Code (no "?", "%", "@", "["): the
\* fragment is cut off at the first "#", the scheme is split off and
\* lower-cased; a rest that does not start with "/" is opaque (with a scheme)
\* or a path (without); a rest that starts with "//" has an authority, the
\* host, up to the next "/"; what is left is the path.
Parse(rawURL) ==
  LET cut  == IndexOf(rawURL, "#")
      u    == IF cut = 0 THEN rawURL ELSE SubSeq(rawURL, 1, cut - 1)
      frag == IF cut = 0 THEN <<>> ELSE SubSeq(rawURL, cut + 1, Len(rawURL))
      gs   == getScheme(u)
      sch  == ToLower(gs.scheme)
      rest == gs.rest
      auth == SubSeq(rest, 3, Len(rest))
      stop == IndexOf(auth, "/")
      base == [nil |-> FALSE, Scheme |-> sch, Opaque |-> <<>>, Host |-> <<>>,
               Path |-> <<>>, Fragment |-> frag]
  IN  IF gs.err THEN [url |-> NilURL, err |-> TRUE]
      ELSE IF ~HasPrefix(rest, <<"/">>) /\ sch # <<>>
      THEN [url |-> [base EXCEPT !.Opaque = rest], err |-> FALSE]
      ELSE IF ~HasPrefix(rest, <<"/">>) /\ IndexOf(rest, ":") # 0
                /\ (IndexOf(rest, "/") = 0 \/ IndexOf(rest, ":") < IndexOf(rest, "/"))
      THEN [url |-> NilURL, err |-> TRUE]
      ELSE IF HasPrefix(rest, <<"/", "/">>) /\ (sch # <<>> \/ ~HasPrefix(rest, <<"/", "/", "/">>))
      THEN [url |-> [base EXCEPT
                       !.Host = IF stop = 0 THEN auth ELSE SubSeq(auth, 1, stop - 1),
                       !.Path = IF stop = 0 THEN <<>> ELSE SubSeq(auth, stop, Len(auth))],
            err |-> FALSE]
      ELSE [url |-> [base EXCEPT !.Path = rest], err |-> FALSE]

\* (*url.URL).String for the URLs Parse builds.
URLString(u) ==
  (IF u.Scheme # <<>> THEN u.Scheme \o <<":">> ELSE <<>>)
  \o (IF u.Opaque # <<>> THEN u.Opaque
      ELSE (IF u.Host # <<>> THEN <<"/", "/">> \o u.Host ELSE <<>>) \o u.Path)
  \o (IF u.Fragment # <<>> THEN <<"#">> \o u.Fragment ELSE <<>>)

\* ------------------------------------------------- values of the wire format
\* An interface{} of the generic JSON-like tree: nil, a string, a number,
\* an array or a nested map.  A nested map is known by the set of vocabulary
\* types whose deserializer accepts it (types) and by its content (id).
NilValue == [tag |-> "nil", s |-> <<>>, n |-> 0, types |-> {}, elems |-> <<>>]

StringValue(str) == [tag |-> "string", s |-> str, n |-> 0, types |-> {}, elems |-> <<>>]

NumberValue(k) == [tag |-> "number", s |-> <<>>, n |-> k, types |-> {}, elems |-> <<>>]

ArrayValue(k) == [tag |-> "array", s |-> <<>>, n |-> k, types |-> {}, elems |-> <<>>]

\* An array given by its elements.
ArrayOf(es) == [tag |-> "array", s |-> <<>>, n |-> 0, types |-> {}, elems |-> es]

MapValue(ts, k) == [tag |-> "map", s |-> <<>>, n |-> k, types |-> ts, elems |-> <<>>]

\* The IRI texts and plain strings used as inputs: "h:x", "H:x" (upper-case
\* scheme), "h:", "h://x/x" (scheme, host and path), "x" (no scheme), ":x"
\* (no parse).
Strings ==
  { <<"h", ":", "x">>, <<"H", ":", "x">>, <<"h", ":">>,
    <<"h", ":", "/", "/", "x", "/", "x">>, <<"x">>, <<":", "x">> }

\* The nested maps used as inputs: one per vocabulary type, two that more
\* than one deserializer accepts, one that none accepts.
MapTypes ==
  { {"Link"}, {"Collection"}, {"CollectionPage"}, {"Mention"},
    {"OrderedCollection"}, {"OrderedCollectionPage"},
    {"Link", "Collection"}, {"Collection", "OrderedCollection"}, {} }

Values ==
  {NilValue} \cup {StringValue(str) : str \in Strings}
    \cup {NumberValue(k) : k \in 1..MaxNum}
    \cup {ArrayValue(1)}
    \cup {MapValue(ts, 1) : ts \in MapTypes}

\* --------------------------------------------------------- vocabulary types
VocabURI == "https://www.w3.org/TR/activitystreams-vocabulary"

NoAlias == <<>>

Aliases == {NoAlias, <<"a", "s">>}

\* A vocab.Type value: the name of its concrete type, its content and the
\* alias it was built under.  NilType is the nil interface.
NilType == [name |-> "nil", id |-> 0, alias |-> NoAlias]

Objects(kind) == [name : {kind}, id : 0..MaxVal, alias : Aliases]

\* t.(vocab.ActivityStreams<kind>): each vocabulary interface has its own
\* LessThan(o <that interface>), so a value satisfies its own interface only.
Implements(t, kind) == t.name = kind

\* <kind>.LessThan of the vocabulary types: a strict total order on the
\* values of one kind.
TypeLessThan(a, b) ==
  \/ a.id < b.id
  \/ a.id = b.id /\ StrLess(a.alias, b.alias)

\* <kind>.Serialize of the vocabulary types: (map, error).
TypeSerialize(v) ==
  IF v.id = 0 THEN [val |-> NilValue, err |-> TRUE]
  ELSE [val |-> MapValue({v.name}, v.id), err |-> FALSE]

\* <kind>.JSONLDContext of the vocabulary types.
TypeJSONLDContext(v) == [k \in {VocabURI} |-> v.alias]

\* mgr.Deserialize<kind>ActivityStreams()(m, aliasMap): (value, error).
mgrDeserialize(kind, m, alias) ==
  IF kind \in m.types
  THEN [v |-> [name |-> kind, id |-> m.n, alias |-> alias], err |-> FALSE]
  ELSE [v |-> NilType, err |-> TRUE]

\* The alias maps a caller supplies, known by aliasMap[VocabURI] = (a, ok):
\* no entry, an empty alias, the alias "as".
AliasMaps == {[ok |-> FALSE, a |-> NoAlias]} \cup [ok : {TRUE}, a : Aliases]

\* The URLs a caller can hand to SetIRI: those url.Parse builds.
URLs == {Parse(str).url : str \in {x \in Strings : ~Parse(x).err}}

\* ------------------------------------------------------- the partOf property
partOfName == <<"p", "a", "r", "t", "O", "f">>

\* The candidate kinds in the order the struct declares them.
partOfKinds ==
  <<"Link", "Collection", "CollectionPage", "Mention",
    "OrderedCollection", "OrderedCollectionPage">>

\* NewActivityStreamsPartOfProperty: &ActivityStreamsPartOfProperty{alias: ""}
NewActivityStreamsPartOfProperty ==
  [prop |-> "partOf",
   activitystreamsLinkMember |-> NilType,
   activitystreamsCollectionMember |-> NilType,
   activitystreamsCollectionPageMember |-> NilType,
   activitystreamsMentionMember |-> NilType,
   activitystreamsOrderedCollectionMember |-> NilType,
   activitystreamsOrderedCollectionPageMember |-> NilType,
   unknown |-> NilValue,
   iri |-> NilURL,
   alias |-> NoAlias]

\* A nil *ActivityStreamsPartOfProperty / *ActivityStreamsLikedProperty.
NilProp == [prop |-> "nil"]

PartOf_ClearMutant(this) ==
  [this EXCEPT !.activitystreamsLinkMember = NilType,
               !.activitystreamsCollectionMember = NilType,
               !.activitystreamsCollectionPageMember = NilType,
               !.activitystreamsMentionMember = NilType,
               !.activitystreamsOrderedCollectionMember = NilType,
               !.activitystreamsOrderedCollectionPageMember = NilType,
               !.unknown = NilValue]

PartOf_Clear(this) ==
  [this EXCEPT !.activitystreamsLinkMember = NilType,
               !.activitystreamsCollectionMember = NilType,
               !.activitystreamsCollectionPageMember = NilType,
               !.activitystreamsMentionMember = NilType,
               !.activitystreamsOrderedCollectionMember = NilType,
               !.activitystreamsOrderedCollectionPageMember = NilType,
               !.unknown = NilValue,
               !.iri = NilURL]

PartOf_IsActivityStreamsLink(this) == this.activitystreamsLinkMember # NilType

PartOf_IsActivityStreamsCollection(this) == this.activitystreamsCollectionMember # NilType

PartOf_IsActivityStreamsCollectionPage(this) ==
  this.activitystreamsCollectionPageMember # NilType

PartOf_IsActivityStreamsMention(this) == this.activitystreamsMentionMember # NilType

PartOf_IsActivityStreamsOrderedCollection(this) ==
  this.activitystreamsOrderedCollectionMember # NilType

PartOf_IsActivityStreamsOrderedCollectionPage(this) ==
  this.activitystreamsOrderedCollectionPageMember # NilType

PartOf_IsIRI(this) == this.iri # NilURL

\* GetActivityStreams<Kind>: return this.activitystreams<Kind>Member
PartOf_GetActivityStreams(this, kind) == this["activitystreams" \o kind \o "Member"]

PartOf_GetIRI(this) == this.iri

PartOf_HasAnyMutant(this) ==
  \/ PartOf_IsActivityStreamsLink(this)
  \/ PartOf_IsActivityStreamsCollection(this)
  \/ PartOf_IsActivityStreamsCollectionPage(this)
  \/ PartOf_IsActivityStreamsMention(this)
  \/ PartOf_IsActivityStreamsOrderedCollection(this)
  \/ PartOf_IsActivityStreamsOrderedCollectionPage(this)

PartOf_HasAny(this) ==
  \/ PartOf_IsActivityStreamsLink(this)
  \/ PartOf_IsActivityStreamsCollection(this)
  \/ PartOf_IsActivityStreamsCollectionPage(this)
  \/ PartOf_IsActivityStreamsMention(this)
  \/ PartOf_IsActivityStreamsOrderedCollection(this)
  \/ PartOf_IsActivityStreamsOrderedCollectionPage(this)
  \/ this.iri # NilURL

PartOf_GetType(this) ==
  IF PartOf_IsActivityStreamsLink(this) THEN this.activitystreamsLinkMember
  ELSE IF PartOf_IsActivityStreamsCollection(this) THEN this.activitystreamsCollectionMember
  ELSE IF PartOf_IsActivityStreamsCollectionPage(this)
  THEN this.activitystreamsCollectionPageMember
  ELSE IF PartOf_IsActivityStreamsMention(this) THEN this.activitystreamsMentionMember
  ELSE IF PartOf_IsActivityStreamsOrderedCollection(this)
  THEN this.activitystreamsOrderedCollectionMember
  ELSE IF PartOf_IsActivityStreamsOrderedCollectionPage(this)
  THEN this.activitystreamsOrderedCollectionPageMember
  ELSE NilType

PartOf_KindIndexMutant(this) ==
  IF PartOf_IsActivityStreamsLink(this) THEN 0
  ELSE IF PartOf_IsActivityStreamsCollection(this) THEN 1
  ELSE IF PartOf_IsActivityStreamsCollectionPage(this) THEN 2
  ELSE IF PartOf_IsActivityStreamsMention(this) THEN 4
  ELSE IF PartOf_IsActivityStreamsOrderedCollection(this) THEN 3
  ELSE IF PartOf_IsActivityStreamsOrderedCollectionPage(this) THEN 5
  ELSE IF PartOf_IsIRI(this) THEN -2
  ELSE -1

PartOf_KindIndex(this) ==
  IF PartOf_IsActivityStreamsLink(this) THEN 0
  ELSE IF PartOf_IsActivityStreamsCollection(this) THEN 1
  ELSE IF PartOf_IsActivityStreamsCollectionPage(this) THEN 2
  ELSE IF PartOf_IsActivityStreamsMention(this) THEN 3
  ELSE IF PartOf_IsActivityStreamsOrderedCollection(this) THEN 4
  ELSE IF PartOf_IsActivityStreamsOrderedCollectionPage(this) THEN 5
  ELSE IF PartOf_IsIRI(this) THEN -2
  ELSE -1

\* The IRI strings compared the wrong way round.
PartOf_LessThanMutant(this, o) ==
  LET idx1 == PartOf_KindIndex(this)
      idx2 == PartOf_KindIndex(o)
  IN  IF idx1 < idx2 THEN TRUE
      ELSE IF idx1 > idx2 THEN FALSE
      ELSE IF PartOf_HasAny(this) /\ ~PartOf_IsIRI(this)
      THEN TypeLessThan(PartOf_GetType(this), PartOf_GetType(o))
      ELSE IF PartOf_IsIRI(this)
      THEN StrLess(URLString(o.iri), URLString(this.iri))
      ELSE FALSE

\* Equal kind indexes taken for "less".
PartOf_LessThanMutantLeq(this, o) ==
  IF PartOf_KindIndex(this) <= PartOf_KindIndex(o) THEN TRUE ELSE FALSE

PartOf_LessThan(this, o) ==
  LET idx1 == PartOf_KindIndex(this)
      idx2 == PartOf_KindIndex(o)
  IN  IF idx1 < idx2 THEN TRUE
      ELSE IF idx1 > idx2 THEN FALSE
      ELSE IF PartOf_IsActivityStreamsLink(this)
      THEN TypeLessThan(this.activitystreamsLinkMember, o.activitystreamsLinkMember)
      ELSE IF PartOf_IsActivityStreamsCollection(this)
      THEN TypeLessThan(this.activitystreamsCollectionMember,
                        o.activitystreamsCollectionMember)
      ELSE IF PartOf_IsActivityStreamsCollectionPage(this)
      THEN TypeLessThan(this.activitystreamsCollectionPageMember,
                        o.activitystreamsCollectionPageMember)
      ELSE IF PartOf_IsActivityStreamsMention(this)
      THEN TypeLessThan(this.activitystreamsMentionMember, o.activitystreamsMentionMember)
      ELSE IF PartOf_IsActivityStreamsOrderedCollection(this)
      THEN TypeLessThan(this.activitystreamsOrderedCollectionMember,
                        o.activitystreamsOrderedCollectionMember)
      ELSE IF PartOf_IsActivityStreamsOrderedCollectionPage(this)
      THEN TypeLessThan(this.activitystreamsOrderedCollectionPageMember,
                        o.activitystreamsOrderedCollectionPageMember)
      ELSE IF PartOf_IsIRI(this)
      THEN StrLess(URLString(this.iri), URLString(o.iri))
      ELSE FALSE

\* The IRI branch left out.
PartOf_SerializeMutant(this) ==
  IF PartOf_HasAny(this) /\ ~PartOf_IsIRI(this)
  THEN TypeSerialize(PartOf_GetType(this))
  ELSE [val |-> this.unknown, err |-> FALSE]

PartOf_SerializeMutantNoUnknown(this) ==
  IF PartOf_IsActivityStreamsLink(this)
  THEN TypeSerialize(this.activitystreamsLinkMember)
  ELSE IF PartOf_IsActivityStreamsCollection(this)
  THEN TypeSerialize(this.activitystreamsCollectionMember)
  ELSE IF PartOf_IsActivityStreamsCollectionPage(this)
  THEN TypeSerialize(this.activitystreamsCollectionPageMember)
  ELSE IF PartOf_IsActivityStreamsMention(this)
  THEN TypeSerialize(this.activitystreamsMentionMember)
  ELSE IF PartOf_IsActivityStreamsOrderedCollection(this)
  THEN TypeSerialize(this.activitystreamsOrderedCollectionMember)
  ELSE IF PartOf_IsActivityStreamsOrderedCollectionPage(this)
  THEN TypeSerialize(this.activitystreamsOrderedCollectionPageMember)
  ELSE IF PartOf_IsIRI(this)
  THEN [val |-> StringValue(URLString(this.iri)), err |-> FALSE]
  ELSE [val |-> NilValue, err |-> FALSE]

\* Serialize: (interface{}, error).
PartOf_Serialize(this) ==
  IF PartOf_IsActivityStreamsLink(this)
  THEN TypeSerialize(this.activitystreamsLinkMember)
  ELSE IF PartOf_IsActivityStreamsCollection(this)
  THEN TypeSerialize(this.activitystreamsCollectionMember)
  ELSE IF PartOf_IsActivityStreamsCollectionPage(this)
  THEN TypeSerialize(this.activitystreamsCollectionPageMember)
  ELSE IF PartOf_IsActivityStreamsMention(this)
  THEN TypeSerialize(this.activitystreamsMentionMember)
  ELSE IF PartOf_IsActivityStreamsOrderedCollection(this)
  THEN TypeSerialize(this.activitystreamsOrderedCollectionMember)
  ELSE IF PartOf_IsActivityStreamsOrderedCollectionPage(this)
  THEN TypeSerialize(this.activitystreamsOrderedCollectionPageMember)
  ELSE IF PartOf_IsIRI(this)
  THEN [val |-> StringValue(URLString(this.iri)), err |-> FALSE]
  ELSE [val |-> this.unknown, err |-> FALSE]

\* The loop "for k, v := range child { m[k] = v }" over context maps.
MergeContext(m, child) ==
  [k \in DOMAIN m \cup DOMAIN child |-> IF k \in DOMAIN child THEN child[k] ELSE m[k]]

EmptyContext == [k \in {} |-> NoAlias]

PartOf_JSONLDContext(this) ==
  LET m == [k \in {VocabURI} |-> this.alias]
      child ==
        IF PartOf_IsActivityStreamsLink(this)
        THEN TypeJSONLDContext(this.activitystreamsLinkMember)
        ELSE IF PartOf_IsActivityStreamsCollection(this)
        THEN TypeJSONLDContext(this.activitystreamsCollectionMember)
        ELSE IF PartOf_IsActivityStreamsCollectionPage(this)
        THEN TypeJSONLDContext(this.activitystreamsCollectionPageMember)
        ELSE IF PartOf_IsActivityStreamsMention(this)
        THEN TypeJSONLDContext(this.activitystreamsMentionMember)
        ELSE IF PartOf_IsActivityStreamsOrderedCollection(this)
        THEN TypeJSONLDContext(this.activitystreamsOrderedCollectionMember)
        ELSE IF PartOf_IsActivityStreamsOrderedCollectionPage(this)
        THEN TypeJSONLDContext(this.activitystreamsOrderedCollectionPageMember)
        ELSE EmptyContext
  IN  MergeContext(m, child)

PartOf_SetActivityStreamsCollection(this, v) ==
  [PartOf_Clear(this) EXCEPT !.activitystreamsCollectionMember = v]

PartOf_SetActivityStreamsCollectionPage(this, v) ==
  [PartOf_Clear(this) EXCEPT !.activitystreamsCollectionPageMember = v]

PartOf_SetActivityStreamsLinkMutant(this, v) ==
  [this EXCEPT !.activitystreamsLinkMember = v]

PartOf_SetActivityStreamsLink(this, v) ==
  [PartOf_Clear(this) EXCEPT !.activitystreamsLinkMember = v]

PartOf_SetActivityStreamsMention(this, v) ==
  [PartOf_Clear(this) EXCEPT !.activitystreamsMentionMember = v]

PartOf_SetActivityStreamsOrderedCollection(this, v) ==
  [PartOf_Clear(this) EXCEPT !.activitystreamsOrderedCollectionMember = v]

PartOf_SetActivityStreamsOrderedCollectionPage(this, v) ==
  [PartOf_Clear(this) EXCEPT !.activitystreamsOrderedCollectionPageMember = v]

PartOf_SetIRI(this, v) == [PartOf_Clear(this) EXCEPT !.iri = v]

\* SetType: [p: the property afterwards, err: a non-nil error was returned].
\* Name returns the name of this property.
PartOf_Name(this) == partOfName

PartOf_SetTypeMutant(this, t) ==
  IF Implements(t, "Link")
  THEN [p |-> PartOf_SetActivityStreamsLink(this, t), err |-> FALSE]
  ELSE IF Implements(t, "Collection")
  THEN [p |-> PartOf_SetActivityStreamsCollection(this, t), err |-> FALSE]
  ELSE IF Implements(t, "CollectionPage")
  THEN [p |-> PartOf_SetActivityStreamsCollectionPage(this, t), err |-> FALSE]
  ELSE IF Implements(t, "Mention")
  THEN [p |-> PartOf_SetActivityStreamsMention(this, t), err |-> FALSE]
  ELSE IF Implements(t, "OrderedCollection")
  THEN [p |-> PartOf_SetActivityStreamsOrderedCollection(this, t), err |-> FALSE]
  ELSE IF Implements(t, "OrderedCollectionPage")
  THEN [p |-> PartOf_SetActivityStreamsOrderedCollectionPage(this, t), err |-> FALSE]
  ELSE [p |-> PartOf_Clear(this), err |-> TRUE]

PartOf_SetType(this, t) ==
  IF Implements(t, "Link")
  THEN [p |-> PartOf_SetActivityStreamsLink(this, t), err |-> FALSE]
  ELSE IF Implements(t, "Collection")
  THEN [p |-> PartOf_SetActivityStreamsCollection(this, t), err |-> FALSE]
  ELSE IF Implements(t, "CollectionPage")
  THEN [p |-> PartOf_SetActivityStreamsCollectionPage(this, t), err |-> FALSE]
  ELSE IF Implements(t, "Mention")
  THEN [p |-> PartOf_SetActivityStreamsMention(this, t), err |-> FALSE]
  ELSE IF Implements(t, "OrderedCollection")
  THEN [p |-> PartOf_SetActivityStreamsOrderedCollection(this, t), err |-> FALSE]
  ELSE IF Implements(t, "OrderedCollectionPage")
  THEN [p |-> PartOf_SetActivityStreamsOrderedCollectionPage(this, t), err |-> FALSE]
  ELSE [p |-> this, err |-> TRUE]

\* The alias of aliasMap for the vocabulary: alias := ""; if a, ok := ...; ok { alias = a }
AliasOf(aliasMap) == IF aliasMap.ok THEN aliasMap.a ELSE NoAlias

\* propName: the bare name, or fmt.Sprintf("%s:%s", alias, name) when len(alias) > 0.
PropNameMutant(name, alias) == name

PropName(name, alias) == IF Len(alias) > 0 THEN alias \o <<":">> \o name ELSE name

\* DeserializePartOfProperty(m, aliasMap): [p: the property or NilProp, err,
\* calls: the kinds whose deserializer was called, in the order of the calls].
PartOf_DeserializeMutant(m, aliasMap) ==
  LET alias == AliasOf(aliasMap)
      propName == PropName(partOfName, alias)
  IN  IF propName \in DOMAIN m /\ m[propName] # NilValue
      THEN [p |-> [NewActivityStreamsPartOfProperty EXCEPT
                     !.alias = alias, !.unknown = m[propName]], err |-> FALSE, calls |-> <<>>]
      ELSE [p |-> NilProp, err |-> FALSE, calls |-> <<>>]

\* Variants of DeserializePartOfProperty: anyURL accepts a string that parses
\* without asking for a scheme, order is the order the kinds are tried in,
\* dropUnknown leaves the unknown slot empty.
PartOf_MemberField(kind) == "activitystreams" \o kind \o "Member"

PartOf_DeserializeVariant(m, aliasMap, anyURL, order, dropUnknown) ==
  LET alias == AliasOf(aliasMap)
      propName == PropName(partOfName, alias)
      empty == [NewActivityStreamsPartOfProperty EXCEPT !.alias = alias]
  IN  IF propName \in DOMAIN m
      THEN LET i == m[propName]
               u == IF i.tag = "string" THEN Parse(i.s) ELSE [url |-> NilURL, err |-> TRUE]
               acc == {j \in 1..Len(order) :
                         i.tag = "map" /\ ~mgrDeserialize(order[j], i, alias).err}
               first == CHOOSE j \in acc : \A k \in acc : j <= k
           IN  IF i.tag = "string" /\ ~u.err /\ (anyURL \/ Len(u.url.Scheme) > 0)
               THEN [p |-> [empty EXCEPT !.iri = u.url], err |-> FALSE, calls |-> <<>>]
               ELSE IF acc # {}
               THEN [p |-> [empty EXCEPT ![PartOf_MemberField(order[first])] =
                                           mgrDeserialize(order[first], i, alias).v],
                     err |-> FALSE, calls |-> SubSeq(order, 1, first)]
               ELSE [p |-> IF dropUnknown THEN empty ELSE [empty EXCEPT !.unknown = i],
                     err |-> FALSE,
                     calls |-> IF i.tag = "map" THEN order ELSE <<>>]
      ELSE [p |-> NilProp, err |-> FALSE, calls |-> <<>>]

PartOf_DeserializeMutantAnyURL(m, aliasMap) ==
  PartOf_DeserializeVariant(m, aliasMap, TRUE, partOfKinds, FALSE)

PartOf_DeserializeMutantOrder(m, aliasMap) ==
  PartOf_DeserializeVariant(m, aliasMap, FALSE,
    <<"Collection", "Link", "CollectionPage", "Mention", "OrderedCollection",
      "OrderedCollectionPage">>, FALSE)

PartOf_DeserializeMutantDropUnknown(m, aliasMap) ==
  PartOf_DeserializeVariant(m, aliasMap, FALSE, partOfKinds, TRUE)

PartOf_Deserialize(m, aliasMap) ==
  LET alias == AliasOf(aliasMap)
      propName == PropName(partOfName, alias)
      empty == [NewActivityStreamsPartOfProperty EXCEPT !.alias = alias]
  IN  IF propName \in DOMAIN m
      THEN LET i == m[propName]
               u == IF i.tag = "string" THEN Parse(i.s) ELSE [url |-> NilURL, err |-> TRUE]
           IN  IF i.tag = "string" /\ ~u.err /\ Len(u.url.Scheme) > 0
               THEN [p |-> [empty EXCEPT !.iri = u.url], err |-> FALSE, calls |-> <<>>]
               ELSE IF i.tag = "map" /\ ~mgrDeserialize("Link", i, alias).err
               THEN [p |-> [empty EXCEPT !.activitystreamsLinkMember =
                                           mgrDeserialize("Link", i, alias).v],
                     err |-> FALSE, calls |-> <<"Link">>]
               ELSE IF i.tag = "map" /\ ~mgrDeserialize("Collection", i, alias).err
               THEN [p |-> [empty EXCEPT !.activitystreamsCollectionMember =
                                           mgrDeserialize("Collection", i, alias).v],
                     err |-> FALSE, calls |-> <<"Link", "Collection">>]
               ELSE IF i.tag = "map" /\ ~mgrDeserialize("CollectionPage", i, alias).err
               THEN [p |-> [empty EXCEPT !.activitystreamsCollectionPageMember =
                                           mgrDeserialize("CollectionPage", i, alias).v],
                     err |-> FALSE, calls |-> <<"Link", "Collection", "CollectionPage">>]
               ELSE IF i.tag = "map" /\ ~mgrDeserialize("Mention", i, alias).err
               THEN [p |-> [empty EXCEPT !.activitystreamsMentionMember =
                                           mgrDeserialize("Mention", i, alias).v],
                     err |-> FALSE, calls |-> <<"Link", "Collection", "CollectionPage", "Mention">>]
               ELSE IF i.tag = "map" /\ ~mgrDeserialize("OrderedCollection", i, alias).err
               THEN [p |-> [empty EXCEPT !.activitystreamsOrderedCollectionMember =
                                           mgrDeserialize("OrderedCollection", i, alias).v],
                     err |-> FALSE, calls |-> <<"Link", "Collection", "CollectionPage", "Mention", "OrderedCollection">>]
               ELSE IF i.tag = "map" /\ ~mgrDeserialize("OrderedCollectionPage", i, alias).err
               THEN [p |-> [empty EXCEPT !.activitystreamsOrderedCollectionPageMember =
                                           mgrDeserialize("OrderedCollectionPage", i, alias).v],
                     err |-> FALSE, calls |-> <<"Link", "Collection", "CollectionPage", "Mention", "OrderedCollection", "OrderedCollectionPage">>]
               ELSE [p |-> [empty EXCEPT !.unknown = i], err |-> FALSE,
                     calls |-> IF i.tag = "map" THEN partOfKinds ELSE <<>>]
      ELSE [p |-> NilProp, err |-> FALSE, calls |-> <<>>]

\* -------------------------------------------------------- the liked property
likedName == <<"l", "i", "k", "e", "d">>

\* The candidate kinds in the order the struct declares them.
likedKinds ==
  <<"OrderedCollection", "Collection", "CollectionPage", "OrderedCollectionPage">>

\* NewActivityStreamsLikedProperty: &ActivityStreamsLikedProperty{alias: ""}
NewActivityStreamsLikedProperty ==
  [prop |-> "liked",
   activitystreamsOrderedCollectionMember |-> NilType,
   activitystreamsCollectionMember |-> NilType,
   activitystreamsCollectionPageMember |-> NilType,
   activitystreamsOrderedCollectionPageMember |-> NilType,
   unknown |-> NilValue,
   iri |-> NilURL,
   alias |-> NoAlias]

Liked_Clear(this) ==
  [this EXCEPT !.activitystreamsOrderedCollectionMember = NilType,
               !.activitystreamsCollectionMember = NilType,
               !.activitystreamsCollectionPageMember = NilType,
               !.activitystreamsOrderedCollectionPageMember = NilType,
               !.unknown = NilValue,
               !.iri = NilURL]

Liked_IsActivityStreamsCollection(this) == this.activitystreamsCollectionMember # NilType

Liked_IsActivityStreamsCollectionPage(this) == this.activitystreamsCollectionPageMember # NilType

Liked_IsActivityStreamsOrderedCollection(this) == this.activitystreamsOrderedCollectionMember # NilType

Liked_IsActivityStreamsOrderedCollectionPage(this) == this.activitystreamsOrderedCollectionPageMember # NilType

Liked_IsIRI(this) == this.iri # NilURL

\* GetActivityStreams<Kind>: return this.activitystreams<Kind>Member
Liked_GetActivityStreams(this, kind) == this["activitystreams" \o kind \o "Member"]

Liked_GetIRI(this) == this.iri

Liked_HasAny(this) ==
  \/ Liked_IsActivityStreamsOrderedCollection(this)
  \/ Liked_IsActivityStreamsCollection(this)
  \/ Liked_IsActivityStreamsCollectionPage(this)
  \/ Liked_IsActivityStreamsOrderedCollectionPage(this)
  \/ this.iri # NilURL

Liked_GetType(this) ==
  IF Liked_IsActivityStreamsOrderedCollection(this)
  THEN this.activitystreamsOrderedCollectionMember
  ELSE IF Liked_IsActivityStreamsCollection(this)
  THEN this.activitystreamsCollectionMember
  ELSE IF Liked_IsActivityStreamsCollectionPage(this)
  THEN this.activitystreamsCollectionPageMember
  ELSE IF Liked_IsActivityStreamsOrderedCollectionPage(this)
  THEN this.activitystreamsOrderedCollectionPageMember
  ELSE NilType

Liked_KindIndex(this) ==
  IF Liked_IsActivityStreamsOrderedCollection(this)
  THEN 0
  ELSE IF Liked_IsActivityStreamsCollection(this)
  THEN 1
  ELSE IF Liked_IsActivityStreamsCollectionPage(this)
  THEN 2
  ELSE IF Liked_IsActivityStreamsOrderedCollectionPage(this)
  THEN 3
  ELSE IF Liked_IsIRI(this) THEN -2
  ELSE -1

Liked_LessThan(this, o) ==
  LET idx1 == Liked_KindIndex(this)
      idx2 == Liked_KindIndex(o)
  IN  IF idx1 < idx2 THEN TRUE
      ELSE IF idx1 > idx2 THEN FALSE
      ELSE IF Liked_IsActivityStreamsOrderedCollection(this)
      THEN TypeLessThan(this.activitystreamsOrderedCollectionMember, o.activitystreamsOrderedCollectionMember)
      ELSE IF Liked_IsActivityStreamsCollection(this)
      THEN TypeLessThan(this.activitystreamsCollectionMember, o.activitystreamsCollectionMember)
      ELSE IF Liked_IsActivityStreamsCollectionPage(this)
      THEN TypeLessThan(this.activitystreamsCollectionPageMember, o.activitystreamsCollectionPageMember)
      ELSE IF Liked_IsActivityStreamsOrderedCollectionPage(this)
      THEN TypeLessThan(this.activitystreamsOrderedCollectionPageMember, o.activitystreamsOrderedCollectionPageMember)
      ELSE IF Liked_IsIRI(this)
      THEN StrLess(URLString(this.iri), URLString(o.iri))
      ELSE FALSE

\* Serialize: (interface{}, error).
Liked_Serialize(this) ==
  IF Liked_IsActivityStreamsOrderedCollection(this)
  THEN TypeSerialize(this.activitystreamsOrderedCollectionMember)
  ELSE IF Liked_IsActivityStreamsCollection(this)
  THEN TypeSerialize(this.activitystreamsCollectionMember)
  ELSE IF Liked_IsActivityStreamsCollectionPage(this)
  THEN TypeSerialize(this.activitystreamsCollectionPageMember)
  ELSE IF Liked_IsActivityStreamsOrderedCollectionPage(this)
  THEN TypeSerialize(this.activitystreamsOrderedCollectionPageMember)
  ELSE IF Liked_IsIRI(this)
  THEN [val |-> StringValue(URLString(this.iri)), err |-> FALSE]
  ELSE [val |-> this.unknown, err |-> FALSE]

Liked_JSONLDContext(this) ==
  LET m == [k \in {VocabURI} |-> this.alias]
      child ==
        IF Liked_IsActivityStreamsOrderedCollection(this)
        THEN TypeJSONLDContext(this.activitystreamsOrderedCollectionMember)
        ELSE IF Liked_IsActivityStreamsCollection(this)
        THEN TypeJSONLDContext(this.activitystreamsCollectionMember)
        ELSE IF Liked_IsActivityStreamsCollectionPage(this)
        THEN TypeJSONLDContext(this.activitystreamsCollectionPageMember)
        ELSE IF Liked_IsActivityStreamsOrderedCollectionPage(this)
        THEN TypeJSONLDContext(this.activitystreamsOrderedCollectionPageMember)
        ELSE EmptyContext
  IN  MergeContext(m, child)

Liked_SetActivityStreamsCollection(this, v) ==
  [Liked_Clear(this) EXCEPT !.activitystreamsCollectionMember = v]

Liked_SetActivityStreamsCollectionPage(this, v) ==
  [Liked_Clear(this) EXCEPT !.activitystreamsCollectionPageMember = v]

Liked_SetActivityStreamsOrderedCollection(this, v) ==
  [Liked_Clear(this) EXCEPT !.activitystreamsOrderedCollectionMember = v]

Liked_SetActivityStreamsOrderedCollectionPage(this, v) ==
  [Liked_Clear(this) EXCEPT !.activitystreamsOrderedCollectionPageMember = v]

Liked_SetIRI(this, v) == [Liked_Clear(this) EXCEPT !.iri = v]

\* SetType: [p: the property afterwards, err: a non-nil error was returned].
\* Name returns the name of this property.
Liked_Name(this) == likedName

Liked_SetType(this, t) ==
  IF Implements(t, "OrderedCollection")
  THEN [p |-> Liked_SetActivityStreamsOrderedCollection(this, t), err |-> FALSE]
  ELSE IF Implements(t, "Collection")
  THEN [p |-> Liked_SetActivityStreamsCollection(this, t), err |-> FALSE]
  ELSE IF Implements(t, "CollectionPage")
  THEN [p |-> Liked_SetActivityStreamsCollectionPage(this, t), err |-> FALSE]
  ELSE IF Implements(t, "OrderedCollectionPage")
  THEN [p |-> Liked_SetActivityStreamsOrderedCollectionPage(this, t), err |-> FALSE]
  ELSE [p |-> this, err |-> TRUE]

\* DeserializeLikedProperty(m, aliasMap): [p: the property or NilProp, err].
Liked_Deserialize(m, aliasMap) ==
  LET alias == AliasOf(aliasMap)
      propName == PropName(likedName, alias)
      empty == [NewActivityStreamsLikedProperty EXCEPT !.alias = alias]
  IN  IF propName \in DOMAIN m
      THEN LET i == m[propName]
               u == IF i.tag = "string" THEN Parse(i.s) ELSE [url |-> NilURL, err |-> TRUE]
           IN  IF i.tag = "string" /\ ~u.err /\ Len(u.url.Scheme) > 0
               THEN [p |-> [empty EXCEPT !.iri = u.url], err |-> FALSE, calls |-> <<>>]
               ELSE IF i.tag = "map" /\ ~mgrDeserialize("OrderedCollection", i, alias).err
               THEN [p |-> [empty EXCEPT !.activitystreamsOrderedCollectionMember =
                                           mgrDeserialize("OrderedCollection", i, alias).v],
                     err |-> FALSE, calls |-> <<"OrderedCollection">>]
               ELSE IF i.tag = "map" /\ ~mgrDeserialize("Collection", i, alias).err
               THEN [p |-> [empty EXCEPT !.activitystreamsCollectionMember =
                                           mgrDeserialize("Collection", i, alias).v],
                     err |-> FALSE, calls |-> <<"OrderedCollection", "Collection">>]
               ELSE IF i.tag = "map" /\ ~mgrDeserialize("CollectionPage", i, alias).err
               THEN [p |-> [empty EXCEPT !.activitystreamsCollectionPageMember =
                                           mgrDeserialize("CollectionPage", i, alias).v],
                     err |-> FALSE, calls |-> <<"OrderedCollection", "Collection", "CollectionPage">>]
               ELSE IF i.tag = "map" /\ ~mgrDeserialize("OrderedCollectionPage", i, alias).err
               THEN [p |-> [empty EXCEPT !.activitystreamsOrderedCollectionPageMember =
                                           mgrDeserialize("OrderedCollectionPage", i, alias).v],
                     err |-> FALSE, calls |-> <<"OrderedCollection", "Collection", "CollectionPage", "OrderedCollectionPage">>]
               ELSE [p |-> [empty EXCEPT !.unknown = i], err |-> FALSE,
                     calls |-> IF i.tag = "map" THEN likedKinds ELSE <<>>]
      ELSE [p |-> NilProp, err |-> FALSE, calls |-> <<>>]

\* ------------------------------------------------------------------- inputs
\* The input maps of Deserialize<Property> for the property called name:
\* each of the keys "name" and "as:name" is absent or holds a value; one of
\* the two is absent or holds a number.
\* ---------------------------------------------------------- the Question type
QuestionName == <<"Q", "u", "e", "s", "t", "i", "o", "n">>

typeKey == <<"t", "y", "p", "e">>

actorName == <<"a", "c", "t", "o", "r">>

\* The declared properties of Question, in the order DeserializeQuestion,
\* Serialize and LessThan go through them.
QuestionPropertyNames ==
  << <<"a", "c", "t", "o", "r">>, <<"a", "l", "t", "i", "t", "u", "d", "e">>,
     <<"a", "n", "y", "O", "f">>, <<"a", "t", "t", "a", "c", "h", "m", "e", "n", "t">>,
     <<"a", "t", "t", "r", "i", "b", "u", "t", "e", "d", "T", "o">>,
     <<"a", "u", "d", "i", "e", "n", "c", "e">>, <<"b", "c", "c">>, <<"b", "t", "o">>,
     <<"c", "c">>, <<"c", "l", "o", "s", "e", "d">>,
     <<"c", "o", "n", "t", "e", "n", "t">>, <<"c", "o", "n", "t", "e", "x", "t">>,
     <<"d", "u", "r", "a", "t", "i", "o", "n">>, <<"e", "n", "d", "T", "i", "m", "e">>,
     <<"g", "e", "n", "e", "r", "a", "t", "o", "r">>, <<"i", "c", "o", "n">>,
     <<"i", "d">>, <<"i", "m", "a", "g", "e">>,
     <<"i", "n", "R", "e", "p", "l", "y", "T", "o">>,
     <<"i", "n", "s", "t", "r", "u", "m", "e", "n", "t">>, <<"l", "i", "k", "e", "s">>,
     <<"l", "o", "c", "a", "t", "i", "o", "n">>,
     <<"m", "e", "d", "i", "a", "T", "y", "p", "e">>, <<"n", "a", "m", "e">>,
     <<"o", "n", "e", "O", "f">>, <<"o", "r", "i", "g", "i", "n">>,
     <<"p", "r", "e", "v", "i", "e", "w">>,
     <<"p", "u", "b", "l", "i", "s", "h", "e", "d">>,
     <<"r", "e", "p", "l", "i", "e", "s">>, <<"r", "e", "s", "u", "l", "t">>,
     <<"s", "h", "a", "r", "e", "s">>, <<"s", "t", "a", "r", "t", "T", "i", "m", "e">>,
     <<"s", "u", "m", "m", "a", "r", "y">>, <<"t", "a", "g">>,
     <<"t", "a", "r", "g", "e", "t">>, <<"t", "o">>, <<"t", "y", "p", "e">>,
     <<"u", "p", "d", "a", "t", "e", "d">>, <<"u", "r", "l">> >>

QuestionProperties == {QuestionPropertyNames[j] : j \in 1..Len(QuestionPropertyNames)}

\* The if-chain "k == ... continue" of the unknown deserialization: TRUE for
\* the keys it skips.
IsKnownKeyMutant(k) == k \in QuestionProperties

IsKnownKey(k) ==
  k \in { <<"a", "c", "t", "o", "r">>, <<"a", "l", "t", "i", "t", "u", "d", "e">>,
        <<"a", "n", "y", "O", "f">>,
        <<"a", "t", "t", "a", "c", "h", "m", "e", "n", "t">>,
        <<"a", "t", "t", "r", "i", "b", "u", "t", "e", "d", "T", "o">>,
        <<"a", "u", "d", "i", "e", "n", "c", "e">>, <<"b", "c", "c">>,
        <<"b", "t", "o">>, <<"c", "c">>, <<"c", "l", "o", "s", "e", "d">>,
        <<"c", "o", "n", "t", "e", "n", "t">>,
        <<"c", "o", "n", "t", "e", "n", "t", "M", "a", "p">>,
        <<"c", "o", "n", "t", "e", "x", "t">>,
        <<"d", "u", "r", "a", "t", "i", "o", "n">>,
        <<"e", "n", "d", "T", "i", "m", "e">>,
        <<"g", "e", "n", "e", "r", "a", "t", "o", "r">>, <<"i", "c", "o", "n">>,
        <<"i", "d">>, <<"i", "m", "a", "g", "e">>,
        <<"i", "n", "R", "e", "p", "l", "y", "T", "o">>,
        <<"i", "n", "s", "t", "r", "u", "m", "e", "n", "t">>,
        <<"l", "i", "k", "e", "s">>, <<"l", "o", "c", "a", "t", "i", "o", "n">>,
        <<"m", "e", "d", "i", "a", "T", "y", "p", "e">>, <<"n", "a", "m", "e">>,
        <<"n", "a", "m", "e", "M", "a", "p">>, <<"o", "n", "e", "O", "f">>,
        <<"o", "r", "i", "g", "i", "n">>, <<"p", "r", "e", "v", "i", "e", "w">>,
        <<"p", "u", "b", "l", "i", "s", "h", "e", "d">>,
        <<"r", "e", "p", "l", "i", "e", "s">>, <<"r", "e", "s", "u", "l", "t">>,
        <<"s", "h", "a", "r", "e", "s">>,
        <<"s", "t", "a", "r", "t", "T", "i", "m", "e">>,
        <<"s", "u", "m", "m", "a", "r", "y">>,
        <<"s", "u", "m", "m", "a", "r", "y", "M", "a", "p">>, <<"t", "a", "g">>,
        <<"t", "a", "r", "g", "e", "t">>, <<"t", "o">>, <<"t", "y", "p", "e">>,
        <<"u", "p", "d", "a", "t", "e", "d">>, <<"u", "r", "l">> }

\* strings.TrimPrefix.
TrimPrefix(s, prefix) ==
  IF HasPrefix(s, prefix) THEN SubSeq(s, Len(prefix) + 1, Len(s)) ELSE s

\* A property of Question, behind its vocab interface: the name Name()
\* returns, the alias, what Serialize() returns (val, err); NilProperty is
\* the nil interface value.
NilProperty == [nil |-> TRUE, name |-> <<>>, alias |-> NoAlias, val |-> NilValue, err |-> FALSE]

Property(name, alias, val, err) ==
  [nil |-> FALSE, name |-> name, alias |-> alias, val |-> val, err |-> err]

Property_Serialize(p) == [val |-> p.val, err |-> p.err]

Property_Name(p) == p.name

\* mgr.Deserialize<Name>PropertyActivityStreams()(m, aliasMap): fails for the
\* properties in fails; otherwise reads its resolved key as the property
\* deserializers do: nil when the key is absent, else a property holding the
\* value.
mgrDeserializeProperty(name, m, aliasMap, fails) ==
  LET alias == AliasOf(aliasMap)
      propName == PropName(name, alias)
  IN  IF name \in fails THEN [p |-> NilProperty, err |-> TRUE]
      ELSE IF propName \in DOMAIN m
      THEN [p |-> Property(name, alias, m[propName], FALSE), err |-> FALSE]
      ELSE [p |-> NilProperty, err |-> FALSE]

NilQuestion == [typeName |-> "nil"]

\* The check of m["type"]: TRUE when it finds a proper type.
Question_TypeCheckMutant(m, aliasPrefix) ==
  typeKey \in DOMAIN m /\ m[typeKey].tag = "string"
    /\ TrimPrefix(m[typeKey].s, aliasPrefix) = QuestionName

Question_TypeCheck(m, aliasPrefix) ==
  IF typeKey \notin DOMAIN m THEN FALSE
  ELSE LET typeValue == m[typeKey]
       IN  IF typeValue.tag = "string"
           THEN TrimPrefix(typeValue.s, aliasPrefix) = QuestionName
           ELSE IF typeValue.tag = "array"
           THEN \E j \in 1..Len(typeValue.elems) :
                  /\ typeValue.elems[j].tag = "string"
                  /\ TrimPrefix(typeValue.elems[j].s, aliasPrefix) = QuestionName
           ELSE FALSE

DeserializeQuestionMutant(m, aliasMap, fails) ==
  LET alias == AliasOf(aliasMap)
      aliasPrefix == IF aliasMap.ok THEN aliasMap.a \o <<":">> ELSE <<>>
      names == QuestionPropertyNames
      failing == {j \in 1..Len(names) :
                    mgrDeserializeProperty(names[j], m, aliasMap, fails).err}
      first == CHOOSE j \in failing : \A k \in failing : j <= k
  IN  IF ~Question_TypeCheck(m, aliasPrefix)
      THEN [q |-> NilQuestion, err |-> TRUE, calls |-> <<>>]
      ELSE IF failing # {}
      THEN [q |-> NilQuestion, err |-> TRUE, calls |-> names]
      ELSE [q |-> [typeName |-> "Question",
                   alias |-> alias,
                   props |-> [n \in QuestionProperties |->
                                mgrDeserializeProperty(n, m, aliasMap, fails).p],
                   unknown |-> [k \in {x \in DOMAIN m : ~IsKnownKey(x)} |-> m[k]]],
            err |-> FALSE, calls |-> names]

\* DeserializeQuestion(m, aliasMap): [q: the object or NilQuestion, err,
\* calls: the properties whose deserializer was called, in call order].
DeserializeQuestion(m, aliasMap, fails) ==
  LET alias == AliasOf(aliasMap)
      aliasPrefix == IF aliasMap.ok THEN aliasMap.a \o <<":">> ELSE <<>>
      names == QuestionPropertyNames
      failing == {j \in 1..Len(names) :
                    mgrDeserializeProperty(names[j], m, aliasMap, fails).err}
      first == CHOOSE j \in failing : \A k \in failing : j <= k
  IN  IF ~Question_TypeCheck(m, aliasPrefix)
      THEN [q |-> NilQuestion, err |-> TRUE, calls |-> <<>>]
      ELSE IF failing # {}
      THEN [q |-> NilQuestion, err |-> TRUE, calls |-> SubSeq(names, 1, first)]
      ELSE [q |-> [typeName |-> "Question",
                   alias |-> alias,
                   props |-> [n \in QuestionProperties |->
                                mgrDeserializeProperty(n, m, aliasMap, fails).p],
                   unknown |-> [k \in {x \in DOMAIN m : ~IsKnownKey(x)} |-> m[k]]],
            err |-> FALSE, calls |-> names]

\* other.GetTypeName() of a vocab.Type.
GetTypeName(other) == other.name

\* ActivityStreamsQuestionExtends: the loop over extensions.
ActivityStreamsQuestionExtends(other) ==
  LET extensions == <<"Activity", "IntransitiveActivity", "Object">>
  IN  \E j \in 1..Len(extensions) : extensions[j] = GetTypeName(other)

\* QuestionIsDisjointWith: the loop over disjointWith.
QuestionIsDisjointWithMutant(other) == GetTypeName(other) = "Link"

QuestionIsDisjointWith(other) ==
  LET disjointWith == <<"Link", "Mention">>
  IN  \E j \in 1..Len(disjointWith) : disjointWith[j] = GetTypeName(other)

QuestionIsExtendedBy(other) == FALSE

\* IsOrExtendsQuestion; its last line calls QuestionIsExtendedBy.
IsOrExtendsQuestion(other) ==
  IF GetTypeName(other) = "Question" THEN TRUE ELSE QuestionIsExtendedBy(other)

Question_IsExtending(this, other) == ActivityStreamsQuestionExtends(other)

\* NewActivityStreamsQuestion: only the type property is set, to "Question".
NewActivityStreamsQuestion ==
  [typeName |-> "Question",
   alias |-> NoAlias,
   props |-> [n \in QuestionProperties |->
                IF n = typeKey
                THEN Property(typeKey, NoAlias, StringValue(QuestionName), FALSE)
                ELSE NilProperty],
   unknown |-> [k \in {} |-> NilValue]]

\* GetUnknownProperties returns the map itself.
Question_GetUnknownProperties(this) == this.unknown

\* SetActivityStreams<Name>(i).
Question_Set(this, name, i) == [this EXCEPT !.props[name] = i]

\* The loop over this.unknown at the end of Serialize.
Question_MergeUnknownMutantOverwrite(m, unknown) ==
  [k \in DOMAIN m \cup DOMAIN unknown |-> IF k \in DOMAIN unknown THEN unknown[k] ELSE m[k]]

Question_MergeUnknownMutantDrop(m, unknown) == m

Question_MergeUnknown(m, unknown) ==
  [k \in DOMAIN m \cup DOMAIN unknown |-> IF k \in DOMAIN m THEN m[k] ELSE unknown[k]]

Question_SerializeMutant(this) ==
  LET typeName == IF Len(this.alias) > 0
                  THEN this.alias \o <<":">> \o QuestionName ELSE QuestionName
      names    == QuestionPropertyNames
      set      == {j \in 1..Len(names) : ~this.props[names[j]].nil}
      failing  == {j \in set : Property_Serialize(this.props[names[j]]).err}
      emitted  == set
      writers(k) == {j \in emitted : Property_Name(this.props[names[j]]) = k}
      last(k)  == CHOOSE j \in writers(k) : \A i \in writers(k) : i <= j
      known    == [k \in {typeKey} \cup {Property_Name(this.props[names[j]]) : j \in emitted} |->
                     IF writers(k) # {}
                     THEN Property_Serialize(this.props[names[last(k)]]).val
                     ELSE StringValue(typeName)]
  IN  IF failing # {}
      THEN [m |-> [k \in {} |-> NilValue], err |-> TRUE]
      ELSE [m |-> Question_MergeUnknown(known, this.unknown), err |-> FALSE]

\* Serialize: [m, err]. The known part is built in declared order, a later
\* assignment to a key replacing an earlier one.
Question_Serialize(this) ==
  LET typeName == IF Len(this.alias) > 0
                  THEN this.alias \o <<":">> \o QuestionName ELSE QuestionName
      names    == QuestionPropertyNames
      set      == {j \in 1..Len(names) : ~this.props[names[j]].nil}
      failing  == {j \in set : Property_Serialize(this.props[names[j]]).err}
      emitted  == {j \in set : Property_Serialize(this.props[names[j]]).val # NilValue}
      writers(k) == {j \in emitted : Property_Name(this.props[names[j]]) = k}
      last(k)  == CHOOSE j \in writers(k) : \A i \in writers(k) : i <= j
      known    == [k \in {typeKey} \cup {Property_Name(this.props[names[j]]) : j \in emitted} |->
                     IF writers(k) # {}
                     THEN Property_Serialize(this.props[names[last(k)]]).val
                     ELSE StringValue(typeName)]
  IN  IF failing # {}
      THEN [m |-> [k \in {} |-> NilValue], err |-> TRUE]
      ELSE [m |-> Question_MergeUnknown(known, this.unknown), err |-> FALSE]

\* The property's own LessThan: a strict order in which properties holding a
\* number come in the order of their numbers and after the others; properties
\* that hold no number are mutually not LessThan.
Rank(v) == IF v.tag = "number" THEN v.n ELSE 0

Property_LessThan(a, b) == Rank(a.val) < Rank(b.val)

\* One "Compare property" block of LessThan: "true" and "false" are returned,
\* "next" goes on to the next block.
Question_CompareProperty(lhs, rhs) ==
  IF ~lhs.nil /\ ~rhs.nil
  THEN IF Property_LessThan(lhs, rhs) THEN "true"
       ELSE IF Property_LessThan(rhs, lhs) THEN "false"
       ELSE "next"
  ELSE IF lhs.nil /\ ~rhs.nil THEN "true"
  ELSE IF ~rhs.nil /\ rhs.nil THEN "false"
  ELSE "next"

\* LessThan: the blocks in declared order, then the numbers of unknown
\* entries.
Question_LessThanMutantNoUnknown(this, o) ==
  LET names    == QuestionPropertyNames
      block(j) == Question_CompareProperty(this.props[names[j]], o.props[names[j]])
      deciding == {j \in 1..Len(names) : block(j) # "next"}
      first    == CHOOSE j \in deciding : \A k \in deciding : j <= k
  IN  deciding # {} /\ block(first) = "true"

Question_LessThan(this, o) ==
  LET names    == QuestionPropertyNames
      block(j) == Question_CompareProperty(this.props[names[j]], o.props[names[j]])
      deciding == {j \in 1..Len(names) : block(j) # "next"}
      first    == CHOOSE j \in deciding : \A k \in deciding : j <= k
  IN  IF deciding # {} THEN block(first) = "true"
      ELSE IF Cardinality(DOMAIN this.unknown)
                < Cardinality(DOMAIN Question_GetUnknownProperties(o))
      THEN TRUE
      ELSE IF Cardinality(DOMAIN Question_GetUnknownProperties(o))
                < Cardinality(DOMAIN this.unknown)
      THEN FALSE
      ELSE FALSE

Maps(name) ==
  LET Keys == {name, <<"a", "s", ":">> \o name}
  IN  {m \in UNION {[D -> Values] : D \in SUBSET Keys} :
         \E k \in Keys : k \notin DOMAIN m \/ m[k].tag = "number"}

PartOfMaps == Maps(partOfName)

LikedMaps == Maps(likedName)

EmptyMap == [k \in {} |-> NilValue]

\* The vocab.Type values a caller can hand to SetType: nil, a value of each
\* candidate kind, and a value of a type that is no candidate ("Note").
Types == {NilType} \cup UNION {Objects(k) : k \in {partOfKinds[i] : i \in 1..Len(partOfKinds)}}
           \cup Objects("Note")

\* The partOf properties the program can build: constructed or deserialized,
\* then possibly cleared or set (every setter clears first, so the result of
\* a setter depends on the property before it through its alias alone).
PartOfBases ==
  {NewActivityStreamsPartOfProperty}
    \cup {r.p : r \in {q \in {PartOf_Deserialize(m, am) : m \in PartOfMaps, am \in AliasMaps} :
                         q.p.prop # "nil"}}

PartOfValues ==
  PartOfBases \cup {PartOf_Clear(b) : b \in PartOfBases}
    \cup {PartOf_SetIRI(b, u) : b \in PartOfBases, u \in URLs}
    \cup {PartOf_SetType(b, t).p : b \in PartOfBases, t \in Types}

LikedBases ==
  {NewActivityStreamsLikedProperty}
    \cup {r.p : r \in {q \in {Liked_Deserialize(m, am) : m \in LikedMaps, am \in AliasMaps} :
                         q.p.prop # "nil"}}

LikedValues ==
  LikedBases \cup {Liked_Clear(b) : b \in LikedBases}
    \cup {Liked_SetIRI(b, u) : b \in LikedBases, u \in URLs}
    \cup {Liked_SetType(b, t).p : b \in LikedBases, t \in Types}

\* -------------------------------------------------------------------- state
\* this: the property under test; NilProp before it is constructed and when
\*       Deserialize<Property> returned a nil pointer.
\* ret:  the last call: its name (op), its inputs (name: the property name of
\*       a deserializer, o, t, u, m, aliasMap), what it returned (val, err,
\*       idx, bool, ctx), the kind deserializers it called (calls) and, for
\*       Clear and a failed SetType, the property
\*       before the call (pre).
\* q:    the Question under test; NilQuestion before it is constructed and
\*       when DeserializeQuestion returned a nil pointer.
\* qret: the last call on it: its name (op), its inputs (m, aliasMap, fails,
\*       i, k, v, o, t) and what it returned (out, err, calls, bool).
VARIABLES this, ret, q, qret

vars == <<this, ret, q, qret>>

NoRet ==
  [op |-> "", name |-> <<>>, pre |-> NilProp, o |-> NilProp, t |-> NilType, u |-> NilURL, m |-> EmptyMap,
   aliasMap |-> [ok |-> FALSE, a |-> NoAlias],
   val |-> NilValue, err |-> FALSE, idx |-> 0, bool |-> FALSE, ctx |-> EmptyContext,
   calls |-> <<>>]

NoQRet ==
  [op |-> "", m |-> EmptyMap, aliasMap |-> [ok |-> FALSE, a |-> NoAlias], fails |-> {},
   i |-> NilProperty, k |-> <<>>, v |-> NilValue,
   o |-> NilQuestion, t |-> NilType,
   out |-> EmptyMap, err |-> FALSE, calls |-> <<>>, bool |-> FALSE]

Init ==
  /\ this = NilProp
  /\ ret = NoRet
  /\ q = NilQuestion
  /\ qret = NoQRet

\* The property under test is constructed once, by New... or Deserialize...
\* A behaviour follows one object: a property or a Question.
Unconstructed == this.prop = "nil" /\ ret.op = "" /\ q.typeName = "nil" /\ qret.op = ""

\* --------------------------------------------------- operations on partOf
DoNewActivityStreamsPartOfProperty ==
  /\ Unconstructed
  /\ UNCHANGED <<q, qret>>
  /\ this' = NewActivityStreamsPartOfProperty
  /\ ret' = [NoRet EXCEPT !.op = "New"]

DoDeserializePartOfProperty(m, aliasMap) ==
  LET r == PartOf_Deserialize(m, aliasMap)
  IN  /\ Unconstructed
      /\ UNCHANGED <<q, qret>>
      /\ this' = r.p
      /\ ret' = [NoRet EXCEPT !.op = "Deserialize", !.name = partOfName, !.m = m, !.aliasMap = aliasMap,
                              !.err = r.err, !.calls = r.calls]

DoPartOf_Clear ==
  /\ this.prop = "partOf"
  /\ UNCHANGED <<q, qret>>
  /\ this' = PartOf_Clear(this)
  /\ ret' = [NoRet EXCEPT !.op = "Clear", !.pre = this]

DoPartOf_SetActivityStreamsLink(v) ==
  /\ this.prop = "partOf"
  /\ UNCHANGED <<q, qret>>
  /\ this' = PartOf_SetActivityStreamsLink(this, v)
  /\ ret' = [NoRet EXCEPT !.op = "SetLink", !.t = v]

DoPartOf_SetActivityStreamsCollection(v) ==
  /\ this.prop = "partOf"
  /\ UNCHANGED <<q, qret>>
  /\ this' = PartOf_SetActivityStreamsCollection(this, v)
  /\ ret' = [NoRet EXCEPT !.op = "SetCollection", !.t = v]

DoPartOf_SetActivityStreamsCollectionPage(v) ==
  /\ this.prop = "partOf"
  /\ UNCHANGED <<q, qret>>
  /\ this' = PartOf_SetActivityStreamsCollectionPage(this, v)
  /\ ret' = [NoRet EXCEPT !.op = "SetCollectionPage", !.t = v]

DoPartOf_SetActivityStreamsMention(v) ==
  /\ this.prop = "partOf"
  /\ UNCHANGED <<q, qret>>
  /\ this' = PartOf_SetActivityStreamsMention(this, v)
  /\ ret' = [NoRet EXCEPT !.op = "SetMention", !.t = v]

DoPartOf_SetActivityStreamsOrderedCollection(v) ==
  /\ this.prop = "partOf"
  /\ UNCHANGED <<q, qret>>
  /\ this' = PartOf_SetActivityStreamsOrderedCollection(this, v)
  /\ ret' = [NoRet EXCEPT !.op = "SetOrderedCollection", !.t = v]

DoPartOf_SetActivityStreamsOrderedCollectionPage(v) ==
  /\ this.prop = "partOf"
  /\ UNCHANGED <<q, qret>>
  /\ this' = PartOf_SetActivityStreamsOrderedCollectionPage(this, v)
  /\ ret' = [NoRet EXCEPT !.op = "SetOrderedCollectionPage", !.t = v]

DoPartOf_SetIRI(v) ==
  /\ this.prop = "partOf"
  /\ UNCHANGED <<q, qret>>
  /\ this' = PartOf_SetIRI(this, v)
  /\ ret' = [NoRet EXCEPT !.op = "SetIRI", !.u = v]

DoPartOf_SetType(t) ==
  /\ this.prop = "partOf"
  /\ UNCHANGED <<q, qret>>
  /\ this' = PartOf_SetType(this, t).p
  /\ ret' = [NoRet EXCEPT !.op = "SetType", !.t = t,
                          !.pre = IF PartOf_SetType(this, t).err THEN this ELSE NilProp,
                          !.err = PartOf_SetType(this, t).err]

DoPartOf_GetActivityStreams(kind) ==
  /\ this.prop = "partOf"
  /\ UNCHANGED <<q, qret>>
  /\ ret' = [NoRet EXCEPT !.op = "GetActivityStreams" \o kind,
                          !.t = PartOf_GetActivityStreams(this, kind)]
  /\ UNCHANGED this

\* IsActivityStreams<Kind>: return this.activitystreams<Kind>Member != nil
DoPartOf_IsActivityStreams(kind) ==
  /\ this.prop = "partOf"
  /\ UNCHANGED <<q, qret>>
  /\ ret' = [NoRet EXCEPT !.op = "IsActivityStreams" \o kind,
                          !.bool = PartOf_GetActivityStreams(this, kind) # NilType]
  /\ UNCHANGED this

DoPartOf_GetIRI ==
  /\ this.prop = "partOf"
  /\ UNCHANGED <<q, qret>>
  /\ ret' = [NoRet EXCEPT !.op = "GetIRI", !.u = PartOf_GetIRI(this)]
  /\ UNCHANGED this

DoPartOf_GetType ==
  /\ this.prop = "partOf"
  /\ UNCHANGED <<q, qret>>
  /\ ret' = [NoRet EXCEPT !.op = "GetType", !.t = PartOf_GetType(this)]
  /\ UNCHANGED this

DoPartOf_IsIRI ==
  /\ this.prop = "partOf"
  /\ UNCHANGED <<q, qret>>
  /\ ret' = [NoRet EXCEPT !.op = "IsIRI", !.bool = PartOf_IsIRI(this)]
  /\ UNCHANGED this

DoPartOf_Name ==
  /\ this.prop = "partOf"
  /\ UNCHANGED <<q, qret>>
  /\ ret' = [NoRet EXCEPT !.op = "Name", !.name = PartOf_Name(this)]
  /\ UNCHANGED this

DoPartOf_HasAny ==
  /\ this.prop = "partOf"
  /\ UNCHANGED <<q, qret>>
  /\ ret' = [NoRet EXCEPT !.op = "HasAny", !.bool = PartOf_HasAny(this)]
  /\ UNCHANGED this

DoPartOf_KindIndex ==
  /\ this.prop = "partOf"
  /\ UNCHANGED <<q, qret>>
  /\ ret' = [NoRet EXCEPT !.op = "KindIndex", !.idx = PartOf_KindIndex(this)]
  /\ UNCHANGED this

DoPartOf_LessThanMutant(o) ==
  /\ this.prop = "partOf"
  /\ UNCHANGED <<q, qret>>
  /\ ret' = [NoRet EXCEPT !.op = "LessThan", !.o = o, !.bool = PartOf_LessThan(this, o)]
  /\ this' = PartOf_Clear(this)

DoPartOf_LessThan(o) ==
  /\ this.prop = "partOf"
  /\ UNCHANGED <<q, qret>>
  /\ ret' = [NoRet EXCEPT !.op = "LessThan", !.o = o, !.bool = PartOf_LessThan(this, o)]
  /\ UNCHANGED this

DoPartOf_Serialize ==
  /\ this.prop = "partOf"
  /\ UNCHANGED <<q, qret>>
  /\ ret' = [NoRet EXCEPT !.op = "Serialize", !.val = PartOf_Serialize(this).val,
                          !.err = PartOf_Serialize(this).err]
  /\ UNCHANGED this

DoPartOf_JSONLDContext ==
  /\ this.prop = "partOf"
  /\ UNCHANGED <<q, qret>>
  /\ ret' = [NoRet EXCEPT !.op = "JSONLDContext", !.ctx = PartOf_JSONLDContext(this)]
  /\ UNCHANGED this

\* ---------------------------------------------------- operations on liked
DoNewActivityStreamsLikedProperty ==
  /\ Unconstructed
  /\ UNCHANGED <<q, qret>>
  /\ this' = NewActivityStreamsLikedProperty
  /\ ret' = [NoRet EXCEPT !.op = "New"]

DoDeserializeLikedProperty(m, aliasMap) ==
  LET r == Liked_Deserialize(m, aliasMap)
  IN  /\ Unconstructed
      /\ UNCHANGED <<q, qret>>
      /\ this' = r.p
      /\ ret' = [NoRet EXCEPT !.op = "Deserialize", !.name = likedName, !.m = m, !.aliasMap = aliasMap,
                              !.err = r.err, !.calls = r.calls]

DoLiked_Clear ==
  /\ this.prop = "liked"
  /\ UNCHANGED <<q, qret>>
  /\ this' = Liked_Clear(this)
  /\ ret' = [NoRet EXCEPT !.op = "Clear", !.pre = this]

DoLiked_SetActivityStreamsOrderedCollection(v) ==
  /\ this.prop = "liked"
  /\ UNCHANGED <<q, qret>>
  /\ this' = Liked_SetActivityStreamsOrderedCollection(this, v)
  /\ ret' = [NoRet EXCEPT !.op = "SetOrderedCollection", !.t = v]

DoLiked_SetActivityStreamsCollection(v) ==
  /\ this.prop = "liked"
  /\ UNCHANGED <<q, qret>>
  /\ this' = Liked_SetActivityStreamsCollection(this, v)
  /\ ret' = [NoRet EXCEPT !.op = "SetCollection", !.t = v]

DoLiked_SetActivityStreamsCollectionPage(v) ==
  /\ this.prop = "liked"
  /\ UNCHANGED <<q, qret>>
  /\ this' = Liked_SetActivityStreamsCollectionPage(this, v)
  /\ ret' = [NoRet EXCEPT !.op = "SetCollectionPage", !.t = v]

DoLiked_SetActivityStreamsOrderedCollectionPage(v) ==
  /\ this.prop = "liked"
  /\ UNCHANGED <<q, qret>>
  /\ this' = Liked_SetActivityStreamsOrderedCollectionPage(this, v)
  /\ ret' = [NoRet EXCEPT !.op = "SetOrderedCollectionPage", !.t = v]

DoLiked_SetIRI(v) ==
  /\ this.prop = "liked"
  /\ UNCHANGED <<q, qret>>
  /\ this' = Liked_SetIRI(this, v)
  /\ ret' = [NoRet EXCEPT !.op = "SetIRI", !.u = v]

DoLiked_SetType(t) ==
  /\ this.prop = "liked"
  /\ UNCHANGED <<q, qret>>
  /\ this' = Liked_SetType(this, t).p
  /\ ret' = [NoRet EXCEPT !.op = "SetType", !.t = t,
                          !.pre = IF Liked_SetType(this, t).err THEN this ELSE NilProp,
                          !.err = Liked_SetType(this, t).err]

DoLiked_GetActivityStreams(kind) ==
  /\ this.prop = "liked"
  /\ UNCHANGED <<q, qret>>
  /\ ret' = [NoRet EXCEPT !.op = "GetActivityStreams" \o kind,
                          !.t = Liked_GetActivityStreams(this, kind)]
  /\ UNCHANGED this

\* IsActivityStreams<Kind>: return this.activitystreams<Kind>Member != nil
DoLiked_IsActivityStreams(kind) ==
  /\ this.prop = "liked"
  /\ UNCHANGED <<q, qret>>
  /\ ret' = [NoRet EXCEPT !.op = "IsActivityStreams" \o kind,
                          !.bool = Liked_GetActivityStreams(this, kind) # NilType]
  /\ UNCHANGED this

DoLiked_GetIRI ==
  /\ this.prop = "liked"
  /\ UNCHANGED <<q, qret>>
  /\ ret' = [NoRet EXCEPT !.op = "GetIRI", !.u = Liked_GetIRI(this)]
  /\ UNCHANGED this

DoLiked_GetType ==
  /\ this.prop = "liked"
  /\ UNCHANGED <<q, qret>>
  /\ ret' = [NoRet EXCEPT !.op = "GetType", !.t = Liked_GetType(this)]
  /\ UNCHANGED this

DoLiked_IsIRI ==
  /\ this.prop = "liked"
  /\ UNCHANGED <<q, qret>>
  /\ ret' = [NoRet EXCEPT !.op = "IsIRI", !.bool = Liked_IsIRI(this)]
  /\ UNCHANGED this

DoLiked_Name ==
  /\ this.prop = "liked"
  /\ UNCHANGED <<q, qret>>
  /\ ret' = [NoRet EXCEPT !.op = "Name", !.name = Liked_Name(this)]
  /\ UNCHANGED this

DoLiked_HasAny ==
  /\ this.prop = "liked"
  /\ UNCHANGED <<q, qret>>
  /\ ret' = [NoRet EXCEPT !.op = "HasAny", !.bool = Liked_HasAny(this)]
  /\ UNCHANGED this

DoLiked_KindIndex ==
  /\ this.prop = "liked"
  /\ UNCHANGED <<q, qret>>
  /\ ret' = [NoRet EXCEPT !.op = "KindIndex", !.idx = Liked_KindIndex(this)]
  /\ UNCHANGED this

DoLiked_LessThan(o) ==
  /\ this.prop = "liked"
  /\ UNCHANGED <<q, qret>>
  /\ ret' = [NoRet EXCEPT !.op = "LessThan", !.o = o, !.bool = Liked_LessThan(this, o)]
  /\ UNCHANGED this

DoLiked_Serialize ==
  /\ this.prop = "liked"
  /\ UNCHANGED <<q, qret>>
  /\ ret' = [NoRet EXCEPT !.op = "Serialize", !.val = Liked_Serialize(this).val,
                          !.err = Liked_Serialize(this).err]
  /\ UNCHANGED this

DoLiked_JSONLDContext ==
  /\ this.prop = "liked"
  /\ UNCHANGED <<q, qret>>
  /\ ret' = [NoRet EXCEPT !.op = "JSONLDContext", !.ctx = Liked_JSONLDContext(this)]
  /\ UNCHANGED this

Next ==
  \/ DoNewActivityStreamsPartOfProperty
  \/ \E m \in PartOfMaps, aliasMap \in AliasMaps : DoDeserializePartOfProperty(m, aliasMap)
  \/ DoPartOf_Clear
  \/ \E v \in Objects("Link") \cup {NilType} : DoPartOf_SetActivityStreamsLink(v)
  \/ \E v \in Objects("Collection") \cup {NilType} : DoPartOf_SetActivityStreamsCollection(v)
  \/ \E v \in Objects("CollectionPage") \cup {NilType} : DoPartOf_SetActivityStreamsCollectionPage(v)
  \/ \E v \in Objects("Mention") \cup {NilType} : DoPartOf_SetActivityStreamsMention(v)
  \/ \E v \in Objects("OrderedCollection") \cup {NilType} : DoPartOf_SetActivityStreamsOrderedCollection(v)
  \/ \E v \in Objects("OrderedCollectionPage") \cup {NilType} : DoPartOf_SetActivityStreamsOrderedCollectionPage(v)
  \/ \E v \in URLs \cup {NilURL} : DoPartOf_SetIRI(v)
  \/ \E t \in Types : DoPartOf_SetType(t)
  \/ \E i \in 1..Len(partOfKinds) : DoPartOf_GetActivityStreams(partOfKinds[i])
  \/ \E i \in 1..Len(partOfKinds) : DoPartOf_IsActivityStreams(partOfKinds[i])
  \/ DoPartOf_GetIRI
  \/ DoPartOf_GetType
  \/ DoPartOf_IsIRI
  \/ DoPartOf_Name
  \/ DoPartOf_HasAny
  \/ DoPartOf_KindIndex
  \/ \E o \in PartOfValues : DoPartOf_LessThan(o)
  \/ DoPartOf_Serialize
  \/ DoPartOf_JSONLDContext
  \/ DoNewActivityStreamsLikedProperty
  \/ \E m \in LikedMaps, aliasMap \in AliasMaps : DoDeserializeLikedProperty(m, aliasMap)
  \/ DoLiked_Clear
  \/ \E v \in Objects("OrderedCollection") \cup {NilType} : DoLiked_SetActivityStreamsOrderedCollection(v)
  \/ \E v \in Objects("Collection") \cup {NilType} : DoLiked_SetActivityStreamsCollection(v)
  \/ \E v \in Objects("CollectionPage") \cup {NilType} : DoLiked_SetActivityStreamsCollectionPage(v)
  \/ \E v \in Objects("OrderedCollectionPage") \cup {NilType} : DoLiked_SetActivityStreamsOrderedCollectionPage(v)
  \/ \E v \in URLs \cup {NilURL} : DoLiked_SetIRI(v)
  \/ \E t \in Types : DoLiked_SetType(t)
  \/ \E i \in 1..Len(likedKinds) : DoLiked_GetActivityStreams(likedKinds[i])
  \/ \E i \in 1..Len(likedKinds) : DoLiked_IsActivityStreams(likedKinds[i])
  \/ DoLiked_GetIRI
  \/ DoLiked_GetType
  \/ DoLiked_IsIRI
  \/ DoLiked_Name
  \/ DoLiked_HasAny
  \/ DoLiked_KindIndex
  \/ \E o \in LikedValues : DoLiked_LessThan(o)
  \/ DoLiked_Serialize
  \/ DoLiked_JSONLDContext

Spec == Init /\ [][Next]_vars

\* ------------------------------------------------- the Question's operations
\* The values under "type": the type name bare, with the alias prefixes
\* "as:" and ":", another type, arrays with and without it, a number.
QuestionTypeValues ==
  {StringValue(t) : t \in {QuestionName, <<"a", "s", ":">> \o QuestionName,
                           <<":">> \o QuestionName, <<"N", "o", "t", "e">>}}
    \cup {ArrayOf(<<StringValue(<<"N", "o", "t", "e">>), StringValue(QuestionName)>>),
          ArrayOf(<<NumberValue(1), StringValue(<<"a", "s", ":">> \o QuestionName)>>),
          ArrayOf(<<StringValue(<<"N", "o", "t", "e">>)>>),
          NumberValue(1)}

Absent == [tag |-> "absent"]

fooKey == <<"f", "o", "o">>

contentMapKey == <<"c", "o", "n", "t", "e", "n", "t", "M", "a", "p">>

\* The input maps: "type", the property "actor" bare and as "as:actor", the
\* companion key "contentMap" and the unrecognized key "foo", each absent or
\* holding a value.
QuestionMapOf(t, a, b, c, f) ==
  LET all == (typeKey :> t) @@ (actorName :> a) @@ (<<"a", "s", ":">> \o actorName :> b)
               @@ (contentMapKey :> c) @@ (fooKey :> f)
  IN  [k \in {x \in DOMAIN all : all[x] # Absent} |-> all[k]]

QuestionMaps ==
  {QuestionMapOf(t, a, b, c, f) :
     t \in QuestionTypeValues \cup {Absent},
     a \in {Absent, StringValue(<<"x">>)},
     b \in {Absent, ArrayValue(1)},
     c \in {Absent, StringValue(<<"x">>)},
     f \in {Absent} \cup {NumberValue(k) : k \in 1..MaxNum}}

\* The outcomes of the property deserializers: the properties whose
\* deserializer returns an error.
QuestionFails == SUBSET {actorName, <<"u", "r", "l">>}

\* The properties a caller can hand to SetActivityStreamsActor: nil, one
\* that serializes to a value, to nil, or with an error.
ActorProperties ==
  {NilProperty, Property(actorName, NoAlias, NumberValue(1), FALSE),
   Property(actorName, NoAlias, NilValue, FALSE),
   Property(actorName, NoAlias, NilValue, TRUE)}

\* The Questions LessThan is called with: deserialized from a map with none,
\* one or both of "foo" and "as:actor" (unknown entries), then given an actor
\* property.
QuestionArgs ==
  {Question_Set(DeserializeQuestion(QuestionMapOf(StringValue(QuestionName), Absent, b,
                                                  Absent, f),
                                    [ok |-> FALSE, a |-> NoAlias], {}).q,
                actorName, i) :
     b \in {Absent, ArrayValue(1)}, f \in {Absent, NumberValue(1)}, i \in ActorProperties}

\* The types the type relations are asked about: the ancestors of Question,
\* the types disjoint with it, Question itself and an unrelated type.
OtherTypes ==
  {[name |-> n, id |-> 1, alias |-> NoAlias] :
     n \in {"Activity", "IntransitiveActivity", "Object", "Link", "Mention", "Question",
            "Note"}}

QUnconstructed == q.typeName = "nil" /\ qret.op = "" /\ this.prop = "nil" /\ ret.op = ""

DoNewActivityStreamsQuestion ==
  /\ QUnconstructed
  /\ q' = NewActivityStreamsQuestion
  /\ qret' = [NoQRet EXCEPT !.op = "New"]
  /\ UNCHANGED <<this, ret>>

DoDeserializeQuestion(m, aliasMap, fails) ==
  LET r == DeserializeQuestion(m, aliasMap, fails)
  IN  /\ QUnconstructed
      /\ q' = r.q
      /\ qret' = [NoQRet EXCEPT !.op = "Deserialize", !.m = m, !.aliasMap = aliasMap,
                                !.fails = fails, !.err = r.err, !.calls = r.calls]
      /\ UNCHANGED <<this, ret>>

DoQuestion_Serialize ==
  /\ q.typeName = "Question"
  /\ qret' = [NoQRet EXCEPT !.op = "Serialize", !.out = Question_Serialize(q).m,
                            !.err = Question_Serialize(q).err]
  /\ UNCHANGED <<q, this, ret>>

DoQuestion_SetActivityStreamsActor(i) ==
  /\ q.typeName = "Question"
  /\ q' = Question_Set(q, actorName, i)
  /\ qret' = [NoQRet EXCEPT !.op = "SetActor", !.i = i]
  /\ UNCHANGED <<this, ret>>

DoQuestion_LessThan(o) ==
  /\ q.typeName = "Question"
  /\ qret' = [NoQRet EXCEPT !.op = "LessThan", !.o = o, !.bool = Question_LessThan(q, o)]
  /\ UNCHANGED <<q, this, ret>>

\* GetUnknownProperties hands out the object's own map; the caller stores v
\* under k in it.
DoQuestion_GetUnknownProperties(k, v) ==
  /\ q.typeName = "Question"
  /\ q' = [q EXCEPT !.unknown =
             [x \in DOMAIN Question_GetUnknownProperties(q) \cup {k} |->
                IF x = k THEN v ELSE q.unknown[x]]]
  /\ qret' = [NoQRet EXCEPT !.op = "GetUnknownProperties", !.k = k, !.v = v]
  /\ UNCHANGED <<this, ret>>

\* GetUnknownProperties by a caller that only reads the map it is handed.
DoQuestion_ReadUnknownProperties ==
  /\ q.typeName = "Question"
  /\ qret' = [NoQRet EXCEPT !.op = "ReadUnknownProperties",
                            !.out = Question_GetUnknownProperties(q)]
  /\ UNCHANGED <<q, this, ret>>

\* The package-level type relations need no object; they are asked before one
\* is constructed.
DoActivityStreamsQuestionExtends(other) ==
  /\ QUnconstructed
  /\ qret' = [NoQRet EXCEPT !.op = "Extends", !.t = other,
                            !.bool = ActivityStreamsQuestionExtends(other)]
  /\ UNCHANGED <<q, this, ret>>

DoIsOrExtendsQuestion(other) ==
  /\ QUnconstructed
  /\ qret' = [NoQRet EXCEPT !.op = "IsOrExtends", !.t = other,
                            !.bool = IsOrExtendsQuestion(other)]
  /\ UNCHANGED <<q, this, ret>>

DoQuestionIsDisjointWith(other) ==
  /\ QUnconstructed
  /\ qret' = [NoQRet EXCEPT !.op = "IsDisjointWith", !.t = other,
                            !.bool = QuestionIsDisjointWith(other)]
  /\ UNCHANGED <<q, this, ret>>

DoQuestionIsExtendedBy(other) ==
  /\ QUnconstructed
  /\ qret' = [NoQRet EXCEPT !.op = "IsExtendedBy", !.t = other,
                            !.bool = QuestionIsExtendedBy(other)]
  /\ UNCHANGED <<q, this, ret>>

DoQuestion_IsExtending(other) ==
  /\ q.typeName = "Question"
  /\ qret' = [NoQRet EXCEPT !.op = "IsExtending", !.t = other,
                            !.bool = Question_IsExtending(q, other)]
  /\ UNCHANGED <<q, this, ret>>

NextQ ==
  \/ DoNewActivityStreamsQuestion
  \/ \E m \in QuestionMaps, aliasMap \in AliasMaps, fails \in QuestionFails :
       DoDeserializeQuestion(m, aliasMap, fails)
  \/ DoQuestion_Serialize
  \/ \E i \in ActorProperties : DoQuestion_SetActivityStreamsActor(i)
  \/ \E k \in {typeKey, actorName} : DoQuestion_GetUnknownProperties(k, StringValue(<<"w">>))
  \/ DoQuestion_ReadUnknownProperties
  \/ \E o \in QuestionArgs : DoQuestion_LessThan(o)
  \/ \E other \in OtherTypes : DoActivityStreamsQuestionExtends(other)
  \/ \E other \in OtherTypes : DoIsOrExtendsQuestion(other)
  \/ \E other \in OtherTypes : DoQuestionIsDisjointWith(other)
  \/ \E other \in OtherTypes : DoQuestionIsExtendedBy(other)
  \/ \E other \in OtherTypes : DoQuestion_IsExtending(other)

SpecQ == Init /\ [][NextQ]_vars

\* ------------------------------------------- every operation, either object
NextAll == Next \/ NextQ

SpecAll == Init /\ [][NextAll]_vars

\* ---------------------------------------------- the methods of either property
IsPartOf(p) == p.prop = "partOf"

Kinds(p) == IF IsPartOf(p) THEN partOfKinds ELSE likedKinds

KindSet(p) == {Kinds(p)[i] : i \in 1..Len(Kinds(p))}

\* The struct field of p that holds values of the kind.
Member(p, kind) ==
  CASE kind = "Link" -> p.activitystreamsLinkMember
    [] kind = "Collection" -> p.activitystreamsCollectionMember
    [] kind = "CollectionPage" -> p.activitystreamsCollectionPageMember
    [] kind = "Mention" -> p.activitystreamsMentionMember
    [] kind = "OrderedCollection" -> p.activitystreamsOrderedCollectionMember
    [] kind = "OrderedCollectionPage" -> p.activitystreamsOrderedCollectionPageMember

\* Is<kind>() of p.
IsKind(p, kind) ==
  IF IsPartOf(p)
  THEN CASE kind = "Link" -> PartOf_IsActivityStreamsLink(p)
         [] kind = "Collection" -> PartOf_IsActivityStreamsCollection(p)
         [] kind = "CollectionPage" -> PartOf_IsActivityStreamsCollectionPage(p)
         [] kind = "Mention" -> PartOf_IsActivityStreamsMention(p)
         [] kind = "OrderedCollection" -> PartOf_IsActivityStreamsOrderedCollection(p)
         [] kind = "OrderedCollectionPage" -> PartOf_IsActivityStreamsOrderedCollectionPage(p)
  ELSE CASE kind = "OrderedCollection" -> Liked_IsActivityStreamsOrderedCollection(p)
         [] kind = "Collection" -> Liked_IsActivityStreamsCollection(p)
         [] kind = "CollectionPage" -> Liked_IsActivityStreamsCollectionPage(p)
         [] kind = "OrderedCollectionPage" -> Liked_IsActivityStreamsOrderedCollectionPage(p)

IsIRI(p) == IF IsPartOf(p) THEN PartOf_IsIRI(p) ELSE Liked_IsIRI(p)

HasAny(p) == IF IsPartOf(p) THEN PartOf_HasAny(p) ELSE Liked_HasAny(p)

KindIndex(p) == IF IsPartOf(p) THEN PartOf_KindIndex(p) ELSE Liked_KindIndex(p)

LessThan(p, o) == IF IsPartOf(p) THEN PartOf_LessThan(p, o) ELSE Liked_LessThan(p, o)

Clear(p) == IF IsPartOf(p) THEN PartOf_Clear(p) ELSE Liked_Clear(p)

Deserialize(name, m, aliasMap) ==
  IF name = partOfName THEN PartOf_Deserialize(m, aliasMap) ELSE Liked_Deserialize(m, aliasMap)

\* The property values of the type of p.
ValuesLike(p) == IF IsPartOf(p) THEN PartOfValues ELSE LikedValues

\* The Is<Kind>()/IsIRI() predicates of p that are true.
TrueIs(p) == {k \in KindSet(p) : IsKind(p, k)} \cup (IF IsIRI(p) THEN {"IRI"} ELSE {})

\* The slots of p that are non-nil: typed members, iri, unknown.
NonNilSlots(p) ==
  {k \in KindSet(p) : Member(p, k) # NilType}
    \cup (IF p.iri # NilURL THEN {"iri"} ELSE {})
    \cup (IF p.unknown # NilValue THEN {"unknown"} ELSE {})

Constructed == this.prop # "nil"

SetOps ==
  {"SetLink", "SetCollection", "SetCollectionPage", "SetMention", "SetOrderedCollection",
   "SetOrderedCollectionPage", "SetIRI"}

\* ------------------------------------------------------------------- claims

\* C1: after the last call of any non-empty sequence of Set<Kind>/SetIRI calls
\* (any arguments, a nil one included) exactly one of the Is<Kind>()/IsIRI()
\* predicates is true and all the others are false.
C1_ExactlyOneIsAfterSet ==
  (Constructed /\ ret.op \in SetOps) => Cardinality(TrueIs(this)) = 1

\* C2: in every reachable state of a partOf or liked property at most one of
\* the slots {each typed member, iri, unknown} is non-nil.
C2_AtMostOneSlot == Constructed => Cardinality(NonNilSlots(this)) <= 1

\* A property deserialized under the alias "as" was given a typed value by
\* SetType and holds that value alone.
C2_Witness ==
  /\ Constructed
  /\ ret.op = "SetType" /\ ~ret.err
  /\ this.alias = <<"a", "s">>
  /\ NonNilSlots(this) = {ret.t.name}

\* C3: after Clear() every Is<Kind>() and IsIRI() is false, HasAny() is false
\* and KindIndex() is -1, and a second Clear() leaves the state after the
\* first one unchanged.
C3_ClearIdempotent ==
  (Constructed /\ ret.op = "Clear") =>
    /\ TrueIs(this) = {}
    /\ ~HasAny(this)
    /\ KindIndex(this) = -1
    /\ Clear(this) = this
    /\ this.alias = ret.pre.alias

\* Clear acted on a property that held an IRI.
C3_Witness == Constructed /\ ret.op = "Clear" /\ IsIRI(ret.pre)

\* The rank the declared candidate order gives p: -2 for an IRI, -1 without
\* typed value and IRI, else the 0-based position of the populated kind.
DeclaredIndex(p) ==
  IF p.iri # NilURL THEN -2
  ELSE IF \A k \in KindSet(p) : Member(p, k) = NilType THEN -1
  ELSE (CHOOSE i \in 1..Len(Kinds(p)) : Member(p, Kinds(p)[i]) # NilType) - 1

\* C4: KindIndex() is -2 for an IRI, -1 when no typed value and no IRI is
\* held, and otherwise the 0-based position of the populated kind in the
\* declared order: partOf = [Link, Collection, CollectionPage, Mention,
\* OrderedCollection, OrderedCollectionPage], liked = [OrderedCollection,
\* Collection, CollectionPage, OrderedCollectionPage].
C4_KindIndexByDeclaredOrder ==
  /\ partOfKinds = <<"Link", "Collection", "CollectionPage", "Mention",
                     "OrderedCollection", "OrderedCollectionPage">>
  /\ likedKinds = <<"OrderedCollection", "Collection", "CollectionPage",
                    "OrderedCollectionPage">>
  /\ (Constructed /\ ret.op = "KindIndex") => ret.idx = DeclaredIndex(this)

\* KindIndex was called on a partOf property holding a Mention.
C4_Witness ==
  /\ Constructed /\ ret.op = "KindIndex"
  /\ IsPartOf(this) /\ this.activitystreamsMentionMember # NilType /\ ret.idx = 3
\* The populated typed kind of p (p holds a typed value).
PopulatedKind(p) == CHOOSE k \in KindSet(p) : Member(p, k) # NilType

HoldsTyped(p) == \E k \in KindSet(p) : Member(p, k) # NilType

\* a.LessThan(b) as the claim describes it.
DescribedLess(a, b) ==
  IF KindIndex(a) < KindIndex(b) THEN TRUE
  ELSE IF KindIndex(a) > KindIndex(b) THEN FALSE
  ELSE IF HoldsTyped(a)
  THEN TypeLessThan(Member(a, PopulatedKind(a)), Member(b, PopulatedKind(a)))
  ELSE IF a.iri # NilURL /\ b.iri # NilURL
  THEN StrLess(URLString(a.iri), URLString(b.iri))
  ELSE FALSE

\* C5: a.LessThan(b) is decided by KindIndex first; on a tie it is the
\* populated typed kind's own LessThan on the two typed values, or the
\* lexicographic comparison of the two IRI strings when both hold IRIs, or
\* false when both are empty; two properties holding the same typed kind are
\* never compared by IRI string.
C5_LessThanByKindThenValue ==
  (Constructed /\ ret.op = "LessThan") => ret.bool = DescribedLess(this, ret.o)

\* Two properties holding different IRIs were compared: "h:" < "h:x".
C5_Witness ==
  /\ Constructed /\ ret.op = "LessThan"
  /\ this.iri # NilURL /\ ret.o.iri # NilURL
  /\ Len(URLString(this.iri)) < Len(URLString(ret.o.iri))
  /\ ret.bool

\* a and b differ in populated kind or in stored value (typed, IRI, unknown).
Differ(a, b) ==
  \/ \E k \in KindSet(a) : Member(a, k) # Member(b, k)
  \/ a.iri # b.iri
  \/ a.unknown # b.unknown

\* a and b differ in KindIndex, in the typed value of the populated kind or
\* in the string of the IRI held.
DifferInComparedPart(a, b) ==
  \/ KindIndex(a) # KindIndex(b)
  \/ \E k \in KindSet(a) : Member(a, k) # Member(b, k)
  \/ a.iri # NilURL /\ b.iri # NilURL /\ URLString(a.iri) # URLString(b.iri)

StrictOrderAt(a, b) ==
  /\ ~LessThan(a, a)
  /\ ~(LessThan(a, b) /\ LessThan(b, a))
  /\ LessThan(a, b) => \A c \in ValuesLike(a) : LessThan(b, c) => LessThan(a, c)

\* C6 as claimed: LessThan is irreflexive, asymmetric and transitive, and of
\* any two properties that differ in populated kind or in stored value
\* (typed, IRI or unknown payload) exactly one is LessThan the other.
C6_TotalOnAllStoredValues ==
  (Constructed /\ ret.op = "LessThan") =>
    /\ StrictOrderAt(this, ret.o)
    /\ Differ(this, ret.o) => (LessThan(this, ret.o) # LessThan(ret.o, this))

\* C6 as amended: LessThan is irreflexive, asymmetric and transitive; of any
\* two properties that differ in KindIndex, in the typed value held or in
\* the IRI string held exactly one is LessThan the other; two properties
\* that hold neither a typed value nor an IRI are mutually not LessThan,
\* whatever their unknown payloads.
C6_StrictOrderTotalOnComparedPart ==
  (Constructed /\ ret.op = "LessThan") =>
    /\ StrictOrderAt(this, ret.o)
    /\ DifferInComparedPart(this, ret.o) => (LessThan(this, ret.o) # LessThan(ret.o, this))
    /\ (~HasAny(this) /\ ~HasAny(ret.o)) => (~LessThan(this, ret.o) /\ ~LessThan(ret.o, this))

\* Two properties with different unknown payloads were compared and neither
\* is LessThan the other.
C6_Witness ==
  /\ Constructed /\ ret.op = "LessThan"
  /\ this.unknown # NilValue /\ ret.o.unknown # NilValue /\ this.unknown # ret.o.unknown
  /\ ~ret.bool /\ ~LessThan(ret.o, this)

\* C7: Serialize() returns the populated typed kind's own Serialize() result
\* (value and error) when a typed slot is set; the IRI's string form with nil
\* error when the IRI slot is set; the stored unknown payload unchanged with
\* nil error when only unknown is set; nil with nil error when empty.
C7_SerializeByPopulatedSlot ==
  (Constructed /\ ret.op = "Serialize") =>
    /\ HoldsTyped(this) =>
         /\ ret.val = TypeSerialize(Member(this, PopulatedKind(this))).val
         /\ ret.err = TypeSerialize(Member(this, PopulatedKind(this))).err
    /\ this.iri # NilURL =>
         ret.val = StringValue(URLString(this.iri)) /\ ~ret.err
    /\ NonNilSlots(this) = {"unknown"} => ret.val = this.unknown /\ ~ret.err
    /\ NonNilSlots(this) = {} => ret.val = NilValue /\ ~ret.err

\* Serialize was called on a property holding an IRI and returned its string.
C7_Witness ==
  /\ Constructed /\ ret.op = "Serialize"
  /\ this.iri # NilURL /\ ret.val.tag = "string" /\ ret.val.s = <<"h", ":", "x">>

\* C8: JSONLDContext() always contains the entry vocabulary-URI -> the
\* instance's alias, and merging the populated child's context never
\* overwrites a key already present in the result (first writer wins).
C8_ContextKeepsOwnAlias ==
  (Constructed /\ ret.op = "JSONLDContext") =>
    /\ VocabURI \in DOMAIN ret.ctx
    /\ ret.ctx[VocabURI] = this.alias

\* The key Deserialize<Property> is to read for the property called name.
ResolvedKey(name, aliasMap) ==
  IF aliasMap.ok /\ aliasMap.a # <<>> THEN aliasMap.a \o <<":">> \o name ELSE name

Restrict(m, keys) == [k \in DOMAIN m \cap keys |-> m[k]]

\* C9: Deserialize<Property> reads exactly one key, the bare property name
\* when the alias map has no or an empty alias for the vocabulary and
\* "alias:propertyName" otherwise: the result is the result for the map cut
\* down to that key, whatever is stored under the other spelling, and the
\* property records the alias.
C9_ReadsResolvedKeyOnly ==
  ret.op = "Deserialize" =>
    LET key == ResolvedKey(ret.name, ret.aliasMap)
    IN  /\ this = Deserialize(ret.name, Restrict(ret.m, {key}), ret.aliasMap).p
        /\ Deserialize(ret.name, Restrict(ret.m, DOMAIN ret.m \ {key}), ret.aliasMap).p.prop
             = "nil"
        /\ Constructed => this.alias = (IF ret.aliasMap.ok THEN ret.aliasMap.a ELSE <<>>)

\* Under the alias "as" a map holding a number under the bare name and an
\* IRI under "as:name" was deserialized to the IRI.
C9_Witness ==
  /\ ret.op = "Deserialize" /\ Constructed
  /\ ret.aliasMap.ok /\ ret.aliasMap.a = <<"a", "s">>
  /\ ret.name \in DOMAIN ret.m /\ ret.m[ret.name].tag = "number"
  /\ this.iri # NilURL /\ this.alias = <<"a", "s">>

\* C10: when the resolved key is absent Deserialize<Property> returns (nil
\* property, nil error); when it is present with any value at all, a nil
\* value included, it returns a non-nil property.
C10_NilIffKeyAbsent ==
  ret.op = "Deserialize" =>
    LET key == ResolvedKey(ret.name, ret.aliasMap)
    IN  /\ key \notin DOMAIN ret.m => (this.prop = "nil" /\ ~ret.err)
        /\ key \in DOMAIN ret.m => this.prop # "nil"

\* The key was present with a nil value: a non-nil, empty property came back.
C10_Witness ==
  /\ ret.op = "Deserialize" /\ Constructed
  /\ ResolvedKey(ret.name, ret.aliasMap) \in DOMAIN ret.m
  /\ ret.m[ResolvedKey(ret.name, ret.aliasMap)] = NilValue
  /\ NonNilSlots(this) = {}

\* ------------------------------------------------------------ C11 .. C15
KindsOf(name) == IF name = partOfName THEN partOfKinds ELSE likedKinds

Serialize(p) == IF IsPartOf(p) THEN PartOf_Serialize(p) ELSE Liked_Serialize(p)

\* The value Deserialize<Property> read: the one under the resolved key.
HasInput == ret.op = "Deserialize" /\ ResolvedKey(ret.name, ret.aliasMap) \in DOMAIN ret.m

Input == ret.m[ResolvedKey(ret.name, ret.aliasMap)]

Schemed(v) == v.tag = "string" /\ ~Parse(v.s).err /\ Parse(v.s).url.Scheme # <<>>

\* The kinds, by their position in the declared order, whose deserializer
\* accepts the value.
Accepting(name, v, alias) ==
  {j \in 1..Len(KindsOf(name)) :
     v.tag = "map" /\ ~mgrDeserialize(KindsOf(name)[j], v, alias).err}

ExampleIRI == <<"h", ":", "/", "/", "x", "/", "x">>

\* C11: a string value is deserialized as an IRI if and only if it parses as
\* a URL and the parsed URL has a non-empty scheme; every other string gives
\* a property that is no IRI and whose unknown slot holds the string. The
\* string "h://x/x" gives an IRI whose String() is "h://x/x".
C11_StringIsIRIIffSchemed ==
  (HasInput /\ Input.tag = "string") =>
    /\ IsIRI(this) <=> Schemed(Input)
    /\ Schemed(Input) => this.iri = Parse(Input.s).url
    /\ ~Schemed(Input) => (this.unknown = Input /\ NonNilSlots(this) = {"unknown"})
    /\ Input.s = ExampleIRI => (IsIRI(this) /\ URLString(this.iri) = ExampleIRI)

\* The string "h://x/x" was deserialized to an IRI.
C11_Witness ==
  /\ HasInput /\ Input.tag = "string" /\ Input.s = ExampleIRI
  /\ IsIRI(this) /\ URLString(this.iri) = ExampleIRI

\* C12: for a map value the kinds' deserializers are called in the declared
\* order up to and including the first one that returns no error, the
\* property holds that kind's value and no later kind is called; when none
\* accepts, all were called.
C12_FirstAcceptingKindInDeclaredOrder ==
  (HasInput /\ Input.tag = "map") =>
    LET kinds == KindsOf(ret.name)
        acc   == Accepting(ret.name, Input, this.alias)
    IN  /\ acc # {} =>
             \E j \in acc :
               /\ \A k \in acc : j <= k
               /\ NonNilSlots(this) = {kinds[j]}
               /\ Member(this, kinds[j]) = mgrDeserialize(kinds[j], Input, this.alias).v
               /\ ret.calls = SubSeq(kinds, 1, j)
        /\ acc = {} => ret.calls = kinds /\ ~HoldsTyped(this)

\* A map that both the Link and the Collection deserializer accept was given
\* to partOf: it holds a Link, and only the Link deserializer was called.
C12_Witness ==
  /\ HasInput /\ ret.name = partOfName
  /\ Input.tag = "map" /\ Input.types = {"Link", "Collection"}
  /\ NonNilSlots(this) = {"Link"} /\ ret.calls = <<"Link">>

\* C13: Deserialize<Property> never returns an error; a value that is
\* neither a string with a scheme nor a map that some kind accepts ends up,
\* as it is, in the unknown slot, with every typed slot and the IRI empty.
C13_NoErrorAndUnknownFallback ==
  ret.op = "Deserialize" =>
    /\ ~ret.err
    /\ (HasInput /\ ~Schemed(Input) /\ Accepting(ret.name, Input, this.alias) = {}) =>
         /\ this.prop # "nil"
         /\ this.unknown = Input
         /\ ~HoldsTyped(this) /\ ~IsIRI(this)

\* A map that every kind's deserializer rejects was stored as unknown, after
\* all of them had been called.
C13_Witness ==
  /\ HasInput /\ Input.tag = "map" /\ Input.types = {}
  /\ ret.calls = KindsOf(ret.name) /\ ~ret.err
  /\ this.unknown = Input /\ NonNilSlots(this) = {"unknown"}

\* C14: for a string value with a URL scheme, Deserialize<Property> followed
\* by Serialize() returns exactly the original string.
C14_IRIRoundTrip ==
  (HasInput /\ Schemed(Input)) => Serialize(this) = [val |-> Input, err |-> FALSE]

\* C15: a value that is neither a string nor a map is stored as unknown, and
\* Serialize() of the result returns exactly that value.
C15_UnknownShapeRoundTrip ==
  (HasInput /\ Input.tag \notin {"string", "map"}) =>
    /\ this.unknown = Input
    /\ ~HoldsTyped(this) /\ ~IsIRI(this)
    /\ Serialize(this) = [val |-> Input, err |-> FALSE]

\* An array was deserialized; the property serializes to that array.
C15_Witness ==
  /\ HasInput /\ Input.tag = "array"
  /\ this.unknown = Input /\ Serialize(this).val = Input

\* ------------------------------------------------------------ C16 .. C20
QDeserialized == qret.op = "Deserialize" /\ ~qret.err

AliasPrefixOf(aliasMap) == IF aliasMap.ok THEN aliasMap.a \o <<":">> ELSE <<>>

\* v is a string that reads "Question", bare or behind the alias prefix.
NamesQuestion(v, prefix) ==
  v.tag = "string" /\ (v.s = QuestionName \/ v.s = prefix \o QuestionName)

TypeNamesQuestion(m, prefix) ==
  /\ typeKey \in DOMAIN m
  /\ \/ NamesQuestion(m[typeKey], prefix)
     \/ /\ m[typeKey].tag = "array"
        /\ \E j \in 1..Len(m[typeKey].elems) : NamesQuestion(m[typeKey].elems[j], prefix)

\* C16: DeserializeQuestion passes its type check if and only if the value
\* under "type" is a string equal to "Question" after the alias prefix is
\* stripped, or an array with at least one such string. On every other input
\* (no "type" key, another string, an array without a match, any other
\* shape) it returns a nil object and an error without calling any property
\* deserializer; on a pass it goes on to the property deserializers and
\* succeeds when none of them fails.
C16_TypeCheckDecidesSuccess ==
  qret.op = "Deserialize" =>
    LET passes == TypeNamesQuestion(qret.m, AliasPrefixOf(qret.aliasMap))
    IN  /\ ~passes => (q = NilQuestion /\ qret.err /\ qret.calls = <<>>)
        /\ passes => qret.calls # <<>>
        /\ (passes /\ qret.fails = {}) => (q # NilQuestion /\ ~qret.err)

\* Under the alias "as" the type [1, "as:Question"] was accepted.
C16_Witness ==
  /\ QDeserialized /\ q # NilQuestion
  /\ qret.aliasMap.ok /\ qret.aliasMap.a = <<"a", "s">>
  /\ qret.m[typeKey].tag = "array" /\ qret.m[typeKey].elems[1].tag = "number"
  /\ qret.calls = QuestionPropertyNames

CompanionKeys == {<<"c", "o", "n", "t", "e", "n", "t", "M", "a", "p">>, <<"n", "a", "m", "e", "M", "a", "p">>, <<"s", "u", "m", "m", "a", "r", "y", "M", "a", "p">>}

\* C17 as stated: after a successful DeserializeQuestion every input key
\* that is no declared property name of Question, the companion keys
\* "contentMap", "nameMap", "summaryMap" included, is in unknown with its
\* original value.
C17_EveryUndeclaredKeyInUnknown ==
  QDeserialized =>
    \A k \in DOMAIN qret.m \ QuestionProperties :
      k \in DOMAIN q.unknown /\ q.unknown[k] = qret.m[k]

\* C17 amended: after a successful DeserializeQuestion unknown holds, with
\* their original values, exactly the input keys that are neither a declared
\* property name of Question nor one of the companion keys "contentMap",
\* "nameMap", "summaryMap"; the companion keys are skipped like the declared
\* names.
C17_UnknownIsUndeclaredNonCompanionKeys ==
  QDeserialized =>
    /\ DOMAIN q.unknown = DOMAIN qret.m \ (QuestionProperties \cup CompanionKeys)
    /\ \A k \in DOMAIN q.unknown : q.unknown[k] = qret.m[k]

\* A map with "foo", "contentMap" and "as:actor" was deserialized without an
\* alias: "foo" and "as:actor" are in unknown, "contentMap" is not.
C17_Witness ==
  /\ QDeserialized /\ ~qret.aliasMap.ok
  /\ {fooKey, contentMapKey} \subseteq DOMAIN qret.m
  /\ DOMAIN q.unknown = {fooKey, <<"a", "s", ":">> \o actorName}

\* The declared properties whose deserializer reads the key k: the one whose
\* resolved name is k, and for a companion key "<name>Map" the property
\* <name>.
ReadBy(k, aliasMap) ==
  {n \in QuestionProperties :
     \/ ResolvedKey(n, aliasMap) = k
     \/ n \o <<"M", "a", "p">> \in CompanionKeys
          /\ ResolvedKey(n \o <<"M", "a", "p">>, aliasMap) = k}

\* C18: DeserializeQuestion partitions the input keys, for every input map
\* and alias map: each key is either read by exactly one declared property
\* deserializer or copied verbatim into unknown, never both and never
\* neither.
C18_KeysPartitioned ==
  QDeserialized =>
    \A k \in DOMAIN qret.m :
      /\ (Cardinality(ReadBy(k, qret.aliasMap)) = 1) # (k \in DOMAIN q.unknown)
      /\ Cardinality(ReadBy(k, qret.aliasMap)) <= 1
      /\ k \in DOMAIN q.unknown => q.unknown[k] = qret.m[k]

ScenarioMap == (typeKey :> StringValue(QuestionName)) @@ (fooKey :> NumberValue(1))

\* C19: deserializing {"type": "Question", "foo": v} succeeds with unknown
\* equal to {"foo": v}; Serialize() of a deserialized object succeeds and
\* contains "type", every recognized property under its name and every
\* unknown entry unchanged; and whenever Serialize succeeds, every unknown
\* entry whose key no known property emitted is in its result unchanged.
C19_UnknownEntriesReappear ==
  /\ QDeserialized =>
       LET out == Question_Serialize(q)
       IN  /\ qret.m = ScenarioMap => q.unknown = (fooKey :> NumberValue(1))
           /\ ~out.err
           /\ typeKey \in DOMAIN out.m
           /\ \A n \in QuestionProperties :
                (~q.props[n].nil /\ q.props[n].val # NilValue) =>
                  (n \in DOMAIN out.m /\ out.m[n] = q.props[n].val)
           /\ \A k \in DOMAIN q.unknown :
                k \in DOMAIN out.m /\ out.m[k] = q.unknown[k]
  /\ (qret.op = "Serialize" /\ ~qret.err) =>
       \A k \in DOMAIN q.unknown \ QuestionProperties :
         k \in DOMAIN qret.out /\ qret.out[k] = q.unknown[k]

\* {"type": "Question", "foo": 1} was deserialized; its serialized form holds
\* "foo": 1 and "type": "Question".
C19_Witness ==
  /\ QDeserialized /\ qret.m = ScenarioMap /\ ~qret.aliasMap.ok
  /\ q.unknown = (fooKey :> NumberValue(1))
  /\ Question_Serialize(q).m[fooKey] = NumberValue(1)
  /\ Question_Serialize(q).m[typeKey] = StringValue(QuestionName)

\* The properties that put a value into the serialized map.
Emitting(obj) ==
  {n \in QuestionProperties : ~obj.props[n].nil /\ obj.props[n].val # NilValue}

\* C20: in Serialize a key written for "type" or for a known property is
\* never replaced by an unknown entry: for every key that a known property
\* emitted and that is also in unknown, the result holds the property's
\* serialized value, and "type" holds the type property's value or else the
\* type name.
C20_KnownKeysWinOverUnknown ==
  (qret.op = "Serialize" /\ ~qret.err) =>
    /\ \A k \in DOMAIN q.unknown \cap Emitting(q) : qret.out[k] = q.props[k].val
    /\ typeKey \notin Emitting(q) =>
         qret.out[typeKey] =
           StringValue(IF q.alias = <<>> THEN QuestionName
                       ELSE q.alias \o <<":">> \o QuestionName)

\* unknown held an entry "actor" while the actor property serialized to
\* another value: the result holds the property's value. unknown also held
\* "type".
C20_Witness ==
  /\ qret.op = "Serialize" /\ ~qret.err
  /\ {actorName, typeKey} \subseteq DOMAIN q.unknown
  /\ actorName \in Emitting(q)
  /\ qret.out[actorName] = q.props[actorName].val
  /\ qret.out[actorName] # q.unknown[actorName]
  /\ qret.out[typeKey] # q.unknown[typeKey]

\* ------------------------------------------------------------ C21 .. C30
\* The two property values are not equal for LessThan: one is nil and the
\* other is not, or one is LessThan the other.
Unequal(l, r) ==
  \/ l.nil # r.nil
  \/ ~l.nil /\ ~r.nil /\ (Property_LessThan(l, r) \/ Property_LessThan(r, l))

FirstUnequal(a, b) ==
  LET diff == {j \in 1..Len(QuestionPropertyNames) :
                 Unequal(a.props[QuestionPropertyNames[j]], b.props[QuestionPropertyNames[j]])}
  IN  IF diff = {} THEN 0 ELSE CHOOSE j \in diff : \A k \in diff : j <= k

\* C21: Question.LessThan is decided at the first declared property where
\* the two objects are not equal: true when this object's property is nil
\* and the other's is not, false when this object's is non-nil and the
\* other's is nil, and the property's own LessThan when both are non-nil.
C21_NilAwareRuleAtFirstDifference ==
  (qret.op = "LessThan" /\ FirstUnequal(q, qret.o) # 0) =>
    LET n == QuestionPropertyNames[FirstUnequal(q, qret.o)]
        l == q.props[n]
        r == qret.o.props[n]
    IN  qret.bool = (IF l.nil THEN TRUE
                     ELSE IF r.nil THEN FALSE
                     ELSE Property_LessThan(l, r))

\* C22: the type relations of Question are fixed tables on the other type's
\* name: Extends and IsExtending are true exactly for Activity,
\* IntransitiveActivity and Object, IsDisjointWith exactly for Link and
\* Mention, IsExtendedBy never, IsOrExtendsQuestion exactly for Question; no
\* type is both an ancestor and disjoint.
C22_TypeRelationTables ==
  /\ qret.op \in {"Extends", "IsExtending"} =>
       qret.bool = (qret.t.name \in {"Activity", "IntransitiveActivity", "Object"})
  /\ qret.op = "IsDisjointWith" => qret.bool = (qret.t.name \in {"Link", "Mention"})
  /\ qret.op = "IsExtendedBy" => ~qret.bool
  /\ qret.op = "IsOrExtends" => qret.bool = (qret.t.name = "Question")
  /\ qret.op \in {"Extends", "IsExtending", "IsDisjointWith"} =>
       ~(ActivityStreamsQuestionExtends(qret.t) /\ QuestionIsDisjointWith(qret.t))

\* QuestionIsDisjointWith was asked about Mention and said yes.
C22_Witness ==
  qret.op = "IsDisjointWith" /\ qret.t.name = "Mention" /\ qret.bool

\* C23: SetType(t) with a t of none of the declared kinds returns an error
\* and leaves every slot of the property (typed members, iri, unknown, alias)
\* as it was; with a t of a declared kind it returns no error and the property
\* holds t in the first declared kind t satisfies and nothing else.
C23_SetTypeErrorLeavesPropertyUnchanged ==
  ret.op = "SetType" =>
    LET fits == {i \in 1..Len(Kinds(this)) : Implements(ret.t, Kinds(this)[i])}
        first == CHOOSE i \in fits : \A j \in fits : i <= j
    IN  IF fits = {}
        THEN ret.err /\ this = ret.pre
        ELSE /\ ~ret.err
             /\ NonNilSlots(this) = {Kinds(this)[first]}
             /\ Member(this, Kinds(this)[first]) = ret.t

\* SetType with a Note failed on a property that holds something.
C23_Witness ==
  /\ ret.op = "SetType" /\ ret.err /\ ret.t.name = "Note"
  /\ NonNilSlots(this) # {}

\* C24: a property deserialized under a non-empty alias a from the key
\* a:partOf (a:liked) reports that same alias-qualified key as its Name(), the
\* key the aggregate's Serialize emits it under.
C24_NameIsAliasQualifiedKey ==
  (HasInput /\ ~ret.err /\ ret.aliasMap.ok /\ ret.aliasMap.a # <<>>) =>
    (IF IsPartOf(this) THEN PartOf_Name(this) ELSE Liked_Name(this))
      = ResolvedKey(ret.name, ret.aliasMap)

\* The operations that only read the property, and the answer each gives on
\* the property p when it is the only call (r carries the operation and its
\* argument).
PropertyReadOps ==
  {"GetIRI", "GetType", "IsIRI", "Name", "HasAny", "KindIndex", "LessThan", "Serialize",
   "JSONLDContext"}
    \cup {"GetActivityStreams" \o partOfKinds[i] : i \in 1..Len(partOfKinds)}
    \cup {"IsActivityStreams" \o partOfKinds[i] : i \in 1..Len(partOfKinds)}

Alone(p, r) ==
  IF \E k \in KindSet(p) : r.op = "GetActivityStreams" \o k
  THEN [NoRet EXCEPT !.op = r.op,
                     !.t = Member(p, CHOOSE k \in KindSet(p) : r.op = "GetActivityStreams" \o k)]
  ELSE IF \E k \in KindSet(p) : r.op = "IsActivityStreams" \o k
  THEN [NoRet EXCEPT !.op = r.op,
                     !.bool = IsKind(p, CHOOSE k \in KindSet(p) : r.op = "IsActivityStreams" \o k)]
  ELSE IF r.op = "GetIRI" THEN [NoRet EXCEPT !.op = r.op, !.u = p.iri]
  ELSE IF r.op = "GetType"
  THEN [NoRet EXCEPT !.op = r.op,
                     !.t = IF IsPartOf(p) THEN PartOf_GetType(p) ELSE Liked_GetType(p)]
  ELSE IF r.op = "IsIRI" THEN [NoRet EXCEPT !.op = r.op, !.bool = IsIRI(p)]
  ELSE IF r.op = "Name"
  THEN [NoRet EXCEPT !.op = r.op,
                     !.name = IF IsPartOf(p) THEN PartOf_Name(p) ELSE Liked_Name(p)]
  ELSE IF r.op = "HasAny" THEN [NoRet EXCEPT !.op = r.op, !.bool = HasAny(p)]
  ELSE IF r.op = "KindIndex" THEN [NoRet EXCEPT !.op = r.op, !.idx = KindIndex(p)]
  ELSE IF r.op = "LessThan"
  THEN [NoRet EXCEPT !.op = r.op, !.o = r.o, !.bool = LessThan(p, r.o)]
  ELSE IF r.op = "Serialize"
  THEN [NoRet EXCEPT !.op = r.op, !.val = Serialize(p).val, !.err = Serialize(p).err]
  ELSE [NoRet EXCEPT !.op = r.op,
                     !.ctx = IF IsPartOf(p) THEN PartOf_JSONLDContext(p)
                             ELSE Liked_JSONLDContext(p)]

QuestionReadOps == {"Serialize", "LessThan", "IsExtending", "ReadUnknownProperties"}

QAlone(x, r) ==
  IF r.op = "Serialize"
  THEN [NoQRet EXCEPT !.op = r.op, !.out = Question_Serialize(x).m,
                      !.err = Question_Serialize(x).err]
  ELSE IF r.op = "LessThan"
  THEN [NoQRet EXCEPT !.op = r.op, !.o = r.o, !.bool = Question_LessThan(x, r.o)]
  ELSE IF r.op = "IsExtending"
  THEN [NoQRet EXCEPT !.op = r.op, !.t = r.t, !.bool = Question_IsExtending(x, r.t)]
  ELSE [NoQRet EXCEPT !.op = r.op, !.out = Question_GetUnknownProperties(x)]

C26_DeclaredOrderAndShortCircuit ==
  qret.op = "Deserialize" =>
    LET names == QuestionPropertyNames
        n == Len(qret.calls)
        failed == {j \in 1..Len(names) : names[j] \in qret.fails}
    IN  IF ~TypeNamesQuestion(qret.m, AliasPrefixOf(qret.aliasMap))
        THEN qret.calls = <<>> /\ qret.err /\ q = NilQuestion
        ELSE /\ n <= Len(names) /\ qret.calls = SubSeq(names, 1, n)
             /\ IF failed = {}
                THEN n = Len(names) /\ ~qret.err /\ q.typeName = "Question"
                ELSE /\ n \in failed /\ \A j \in failed : n <= j
                     /\ qret.err /\ q = NilQuestion

\* The first and the last deserializer fail: only the first was called.
C26_Witness ==
  /\ qret.op = "Deserialize" /\ qret.fails = {actorName, <<"u", "r", "l">>}
  /\ qret.calls = <<actorName>> /\ qret.err /\ q = NilQuestion

\* C27: Question.Serialize writes a key for a declared property exactly when
\* the field is non-nil and its Serialize() returns a non-nil value and no
\* error; a nil field or a nil value writes no key (the key is in the result
\* only if "type" or an unknown entry put it there); an error of a property's
\* Serialize makes the whole call return that error and no map.
C27_KeyIffNonNilValue ==
  qret.op = "Serialize" =>
    IF \E n \in QuestionProperties : ~q.props[n].nil /\ Property_Serialize(q.props[n]).err
    THEN qret.err /\ qret.out = EmptyMap
    ELSE /\ ~qret.err
         /\ \A n \in QuestionProperties :
              IF ~q.props[n].nil /\ Property_Serialize(q.props[n]).val # NilValue
              THEN /\ Property_Name(q.props[n]) \in DOMAIN qret.out
                   /\ qret.out[Property_Name(q.props[n])] = Property_Serialize(q.props[n]).val
              ELSE /\ n \in DOMAIN qret.out <=> (n = typeKey \/ n \in DOMAIN q.unknown)
                   /\ (n \in DOMAIN q.unknown /\ n # typeKey) => qret.out[n] = q.unknown[n]

\* The actor property is set and serializes to nil: the result has no "actor".
C27_Witness ==
  /\ qret.op = "Serialize" /\ ~qret.err
  /\ ~q.props[actorName].nil /\ Property_Serialize(q.props[actorName]).val = NilValue
  /\ actorName \notin DOMAIN qret.out

\* C28: when every declared property is nil in both objects or non-nil in
\* both with neither LessThan the other, a.LessThan(b) is
\* len(a.unknown) < len(b.unknown); objects with the same number of unknown
\* entries are then mutually not LessThan, whatever the entries are.
C28_UnknownCountBreaksTies ==
  (qret.op = "LessThan" /\ FirstUnequal(q, qret.o) = 0) =>
    LET mine   == Cardinality(DOMAIN q.unknown)
        theirs == Cardinality(DOMAIN qret.o.unknown)
    IN  /\ qret.bool = (mine < theirs)
        /\ mine = theirs => ~qret.bool /\ ~Question_LessThan(qret.o, q)

\* Two objects with one unknown entry each under different keys, and actor
\* properties that are both set and mutually not LessThan, were compared.
C28_Witness ==
  /\ qret.op = "LessThan" /\ FirstUnequal(q, qret.o) = 0
  /\ ~q.props[actorName].nil /\ q.props[actorName] # qret.o.props[actorName]
  /\ Cardinality(DOMAIN q.unknown) = 1 /\ Cardinality(DOMAIN qret.o.unknown) = 1
  /\ DOMAIN q.unknown # DOMAIN qret.o.unknown
  /\ ~qret.bool

\* The property LessThan orders the properties of a and b totally: two
\* non-nil values of a property are equal or one is LessThan the other.
TotallyOrdered(a, b) ==
  \A n \in QuestionProperties :
    LET l == a.props[n]
        r == b.props[n]
    IN  (~l.nil /\ ~r.nil /\ l # r) => (Property_LessThan(l, r) \/ Property_LessThan(r, l))

\* C29: Question.LessThan is a strict ordering when each property's LessThan
\* is a strict total order: a.LessThan(a) is false, and a.LessThan(b) and
\* b.LessThan(a) are never both true.
C29_LessThanIrreflexiveAsymmetric ==
  (qret.op = "LessThan" /\ TotallyOrdered(q, qret.o)) =>
    /\ ~Question_LessThan(q, q)
    /\ ~(qret.bool /\ Question_LessThan(qret.o, q))

\* C30: in every reachable state of a property HasAny() holds exactly when
\* KindIndex() is not -1; a property deserialized to unknown has HasAny()
\* false, KindIndex() -1 and GetType() nil, its Serialize() returns the stored
\* non-nil payload, and it and a newly constructed property are mutually not
\* LessThan.
C30_HasAnyIffKindIndex ==
  Constructed =>
    LET new == IF IsPartOf(this) THEN NewActivityStreamsPartOfProperty
               ELSE NewActivityStreamsLikedProperty
        getType == IF IsPartOf(this) THEN PartOf_GetType(this) ELSE Liked_GetType(this)
    IN  /\ HasAny(this) <=> KindIndex(this) # -1
        /\ this.unknown # NilValue =>
             /\ ~HasAny(this) /\ KindIndex(this) = -1 /\ getType = NilType
             /\ Serialize(this) = [val |-> this.unknown, err |-> FALSE]
             /\ (HasInput /\ ret.op = "Deserialize") => Serialize(this).val = Input
             /\ ~LessThan(this, new) /\ ~LessThan(new, this)

\* A partOf property was deserialized to unknown.
C30_Witness ==
  /\ ret.op = "Deserialize" /\ ~ret.err /\ IsPartOf(this)
  /\ this.unknown # NilValue /\ this.unknown = Input

====
